---- MODULE Spec2Model ----
(***************************************************************************)
(* Linmo kernel: scheduler (per-level ready queues with round-robin        *)
(* cursors), task delay / suspend / resume / priority, counting            *)
(* semaphores, mutexes and condition variables, in preemptive mode         *)
(* (app_main returned non-zero).                                           *)
(*                                                                         *)
(* A step of the model is what runs between two points where the timer     *)
(* interrupt can be taken: a kernel call up to its NOSCHED_LEAVE /         *)
(* CRITICAL_LEAVE, or up to and including the trap of its ecall, or one    *)
(* timer interrupt.  pc[t] is the place task t resumes at when it is       *)
(* given the CPU.                                                          *)
(***************************************************************************)
EXTENDS Integers, Sequences, FiniteSets, TLC

(* ------------------------------ bounds ------------------------------- *)
NTasks == 3            \* tasks spawned by app_main
MaxTicks == 2          \* timer interrupts taken in one run
MaxDelay == 2          \* largest tick argument of delay / timedlock
MaxCount == 2          \* mo_sem_signal is not called with count above this
SemInitial == 1        \* initial_count given to mo_sem_create
SemWaiters == 3        \* max_waiters given to mo_sem_create
MaxWaiters == 2        \* longest mutex / condition wait list explored
MaxSemWaiters == 2     \* largest max_waiters tried with an empty semaphore
MaxSpawned == 2        \* tasks spawned by running tasks after boot
NTimers == 2           \* timers created by app_main
MaxPeriod == 2         \* longest timer period, in ticks
TickCycles == 2        \* F_CPU / F_TIMER, mtime counts between two ticks
MaxMtime == 6          \* mtime counts followed in one run

(* ------------------------- program constants ------------------------- *)
TASK_PRIORITY_LEVELS == 8
TASK_TIMESLICE_IDLE == 15
SEM_MAX_COUNT == 2147483646
SKIP_ATTEMPTS == 10
TIMER_BATCH_SIZE == 4
TIMER_NODE_POOL_SIZE == 16
TIMER_ID_BASE == 24576   \* 0x6000, the first timer id
TID_LIMIT == 65536     \* uint16_t next_tid, id and task_count wrap at 2^16
(* kcb->ticks is a uint32_t: kcb.ticks holds its bits 0..30 and          *)
(* kcb.ticks_bit31 its bit 31                                            *)
TICKS_LOW_MAX == 2147483647

(* enum task_priorities *)
TASK_PRIO_CRIT == 257          \* 0x0101
TASK_PRIO_REALTIME == 771      \* 0x0303
TASK_PRIO_HIGH == 1799         \* 0x0707
TASK_PRIO_ABOVE == 3855        \* 0x0F0F
TASK_PRIO_NORMAL == 7967       \* 0x1F1F
TASK_PRIO_BELOW == 16191       \* 0x3F3F
TASK_PRIO_LOW == 32639         \* 0x7F7F
TASK_PRIO_IDLE == 65535        \* 0xFFFF

Tasks == 1..NTasks
Levels == 0..(TASK_PRIORITY_LEVELS - 1)
NoHalt == "running"

(* enum task_states *)
TASK_READY == "READY"
TASK_RUNNING == "RUNNING"
TASK_BLOCKED == "BLOCKED"
TASK_SUSPENDED == "SUSPENDED"

(* priority_timeslices[] *)
priority_timeslices == <<1, 2, 3, 4, 5, 7, 10, 15>>

get_priority_timeslice(prio_level) ==
    IF prio_level >= TASK_PRIORITY_LEVELS THEN TASK_TIMESLICE_IDLE
    ELSE priority_timeslices[prio_level + 1]

(* valid_priorities[] and is_valid_priority *)
valid_priorities ==
    <<TASK_PRIO_CRIT, TASK_PRIO_REALTIME, TASK_PRIO_HIGH, TASK_PRIO_ABOVE,
      TASK_PRIO_NORMAL, TASK_PRIO_BELOW, TASK_PRIO_LOW, TASK_PRIO_IDLE>>
is_valid_priority(priority) ==
    \E i \in 1..Len(valid_priorities) : priority = valid_priorities[i]

extract_priority_level(prio) ==
    IF is_valid_priority(prio)
    THEN (CHOOSE i \in 1..Len(valid_priorities) : valid_priorities[i] = prio) - 1
    ELSE 4

(* Levels that mo_task_priority is called with: HighLevel (2) and     *)
(* NormalLevel (4), as extract_priority_level maps them.              *)
HighLevel == 2          \* level of TASK_PRIO_HIGH
NormalLevel == 4        \* level of TASK_PRIO_NORMAL, the priority of a new task
PrioInputs == {HighLevel, NormalLevel}

VARIABLES
    tcb,      \* tcb[t]: state, delay, time_slice, prio_level of task t
    kcb,      \* kernel control block, with the halt reason of panic()
    mtie,     \* mie.MTIE: the timer interrupt source is enabled
    pc,       \* pc[t]: where task t continues when it runs
    sem,      \* the semaphore: count, wait_q, max_waiters, size
    mtx,      \* the mutex: owner_tid, waiters
    cnd,      \* the condition variable: waiters
    ev,       \* the last kernel operation: who, what, result
    tokens    \* initial_count + tokens signalled - acquisitions completed

vars == <<tcb, kcb, mtie, pc, sem, mtx, cnd, ev, tokens>>

(* --------------------------- list nodes ------------------------------ *)
(* A list_node_t pointer: NULL, the rq_node embedded in a TCB, the node   *)
(* of a task in the master list kcb->tasks, or a tail sentinel.           *)
NULL == <<"null", 0>>
rq_node(t) == <<"rq", t>>
rq_tail(l) == <<"rqtail", l>>
task_node(t) == <<"task", t>>
tasks_tail == <<"taskstail", 0>>

(* node->data: the TCB, or NULL (0) for a sentinel *)
node_data(n) == IF n[1] \in {"rq", "task"} THEN n[2] ELSE 0

IndexOf(s, x) == CHOOSE i \in 1..Len(s) : s[i] = x
InSeq(s, x) == \E i \in 1..Len(s) : s[i] = x
RemoveFrom(s, x) == SelectSeq(s, LAMBDA y : y # x)

(* the ready queue a task's rq_node is linked in, if any *)
LinkedLevels(k, t) == {l \in Levels : InSeq(k.ready_queues[l], t)}

(* node->next *)
node_next(k, n) ==
    IF n[1] = "rq" THEN
        IF LinkedLevels(k, n[2]) = {} THEN NULL
        ELSE LET l == CHOOSE x \in LinkedLevels(k, n[2]) : TRUE
                 q == k.ready_queues[l]
                 i == IndexOf(q, n[2])
             IN IF i < Len(q) THEN rq_node(q[i + 1]) ELSE rq_tail(l)
    ELSE IF n[1] = "task" THEN
        IF ~InSeq(k.tasks, n[2]) THEN NULL
        ELSE LET i == IndexOf(k.tasks, n[2])
             IN IF i < Len(k.tasks) THEN task_node(k.tasks[i + 1])
                ELSE tasks_tail
    ELSE NULL

(* A list_t pointer: <<"rq", l>> (NULL until created) or <<"tasks", 0>>. *)
list_exists(k, list) == list[1] = "tasks" \/ list[2] \in k.rq_created
list_tail(list) == IF list[1] = "rq" THEN rq_tail(list[2]) ELSE tasks_tail
list_first(k, list) ==
    IF list[1] = "rq"
    THEN IF k.ready_queues[list[2]] = <<>> THEN rq_tail(list[2])
         ELSE rq_node(k.ready_queues[list[2]][1])
    ELSE IF k.tasks = <<>> THEN tasks_tail ELSE task_node(k.tasks[1])

list_cnext(k, list, n) ==
    IF ~list_exists(k, list) \/ n = NULL THEN NULL
    ELSE IF node_next(k, n) = list_tail(list) THEN list_first(k, list)
    ELSE node_next(k, n)

(* list_pushback_node: link an unlinked node before the tail sentinel;    *)
(* a node that is still linked (next # NULL) is left where it is.         *)
list_pushback_node(k, l, t) ==
    IF node_next(k, rq_node(t)) # NULL THEN k
    ELSE [k EXCEPT !.ready_queues[l] = Append(@, t)]

(* list_remove_node: unlink the node if the list holds it *)
list_remove_node(k, l, t) ==
    IF l \notin k.rq_created THEN k
    ELSE [k EXCEPT !.ready_queues[l] = RemoveFrom(@, t)]

(* ---------------------------- scheduler ------------------------------ *)
(* The operators below take and return K = [tcb, kcb].                    *)
Halted(K) == K.kcb.halt # NoHalt
panic(K, code) == IF Halted(K) THEN K ELSE [K EXCEPT !.kcb.halt = code]

sched_enqueue_task(K, t) ==
    IF Halted(K) THEN K ELSE
    LET l == K.tcb[t].prio_level
        K1 == [K EXCEPT !.tcb[t].time_slice = get_priority_timeslice(l),
                        !.tcb[t].state = TASK_READY,
                        !.kcb.rq_created = @ \cup {l}]
        k2 == list_pushback_node(K1.kcb, l, t)
        c1 == IF k2.rr_cursors[l] = NULL THEN rq_node(t) ELSE k2.rr_cursors[l]
        c2 == IF c1 = k2.task_current THEN rq_node(t) ELSE c1
    IN [K1 EXCEPT !.kcb = [k2 EXCEPT !.rr_cursors[l] = c2,
                                     !.ready_bitmap = @ \cup {l}]]

sched_dequeue_task(K, t) ==
    IF Halted(K) THEN K ELSE
    LET l == K.tcb[t].prio_level
        k == K.kcb
        c1 == IF rq_node(t) = k.rr_cursors[l]
              THEN list_cnext(k, <<"rq", l>>, k.rr_cursors[l])
              ELSE k.rr_cursors[l]
        k1 == [k EXCEPT !.rr_cursors[l] = c1]
        k2 == list_remove_node(k1, l, t)
    IN IF l \notin k.rq_created
       THEN panic(K, "fault")      \* rq->length read through a NULL rq
       ELSE IF k2.ready_queues[l] = <<>>
       THEN [K EXCEPT !.kcb = [k2 EXCEPT !.rr_cursors[l] = NULL,
                                         !.ready_bitmap = @ \ {l}]]
       ELSE [K EXCEPT !.kcb = k2]

sched_tick_current_task(K) ==
    IF Halted(K) \/ node_data(K.kcb.task_current) = 0 THEN K ELSE
    LET t == node_data(K.kcb.task_current)
        ts == IF K.tcb[t].time_slice > 0 THEN K.tcb[t].time_slice - 1
              ELSE K.tcb[t].time_slice
    IN [K EXCEPT !.tcb[t].time_slice = ts,
                 !.tcb[t].state = IF ts = 0 /\ @ = TASK_RUNNING
                                  THEN TASK_READY ELSE @]

MinLevel(S) == CHOOSE l \in S : \A m \in S : l <= m

sched_select_next_task(K) ==
    IF Halted(K) THEN K ELSE
    IF node_data(K.kcb.task_current) = 0 THEN panic(K, "ERR_NO_TASKS") ELSE
    LET cur == node_data(K.kcb.task_current)
        K1 == [K EXCEPT !.tcb[cur].state =
                    IF @ = TASK_RUNNING THEN TASK_READY ELSE @]
        bitmap == K1.kcb.ready_bitmap
    IN IF bitmap = {} THEN panic(K1, "ERR_NO_TASKS") ELSE
       LET top == MinLevel(bitmap)
           cursor == K1.kcb.rr_cursors[top]
       IN IF top \notin K1.kcb.rq_created \/ cursor = NULL
          THEN panic(K1, "ERR_NO_TASKS") ELSE
          LET K2 == [K1 EXCEPT !.kcb.task_current = cursor,
                               !.kcb.rr_cursors[top] =
                                   list_cnext(K1.kcb, <<"rq", top>>, cursor)]
              new == node_data(cursor)
          IN IF new = 0 THEN panic(K2, "fault")  \* sentinel: data is NULL
             ELSE [K2 EXCEPT !.tcb[new].time_slice =
                                 get_priority_timeslice(K2.tcb[new].prio_level),
                             !.tcb[new].state = TASK_RUNNING]

(* delay_update_batch on one node of the master list *)
delay_update_batch(K, t) ==
    IF Halted(K) \/ K.tcb[t].state # TASK_BLOCKED THEN K
    ELSE IF K.tcb[t].delay > 0
    THEN IF K.tcb[t].delay - 1 = 0
         THEN sched_enqueue_task([K EXCEPT !.tcb[t].delay = 0], t)
         ELSE [K EXCEPT !.tcb[t].delay = @ - 1]
    ELSE K

(* list_foreach(kcb->tasks, delay_update_batch, ..) *)
RECURSIVE delay_update_from(_, _)
delay_update_from(K, i) ==
    IF i > Len(K.kcb.tasks) THEN K
    ELSE delay_update_from(delay_update_batch(K, K.kcb.tasks[i]), i + 1)

find_task_node_by_id(k, id) ==
    IF id # 0 /\ InSeq(k.tasks, id) THEN task_node(id) ELSE NULL

(* the delay-skip loop of dispatch() *)
RECURSIVE dispatch_skip(_, _)
dispatch_skip(K, attempts) ==
    IF Halted(K) THEN K ELSE
    LET next_task == node_data(K.kcb.task_current)
    IN IF K.tcb[next_task].delay > 0 /\ attempts < SKIP_ATTEMPTS
       THEN LET n1 == list_cnext(K.kcb, <<"tasks", 0>>, K.kcb.task_current)
                n2 == IF n1 = NULL \/ node_data(n1) = 0
                      THEN list_first(K.kcb, <<"tasks", 0>>) ELSE n1
            IN IF node_data(n2) = 0 THEN panic(K, "fault")
               ELSE dispatch_skip([K EXCEPT !.kcb.task_current = n2],
                                  attempts + 1)
       ELSE K

(* the rt hook part of dispatch() that leaves the previous task RUNNING *)
dispatch_elect_nodemote(K, rt) ==
    IF Halted(K) THEN K ELSE
    IF rt < 0 THEN sched_select_next_task(K) ELSE
    LET id == rt % TID_LIMIT
        rt_node == find_task_node_by_id(K.kcb, id)
    IN IF rt_node = NULL THEN sched_select_next_task(K)
       ELSE IF rt_node # K.kcb.task_current
       THEN [K EXCEPT !.kcb.task_current = rt_node,
                      !.tcb[id].state = TASK_RUNNING,
                      !.tcb[id].time_slice =
                          get_priority_timeslice(K.tcb[id].prio_level)]
       ELSE K

(* the rt hook part of dispatch(): rt is what kcb->rt_sched() returned *)
dispatch_elect(K, rt) ==
    IF Halted(K) THEN K ELSE
    IF rt < 0 THEN sched_select_next_task(K) ELSE
    LET id == rt % TID_LIMIT    \* (uint16_t) rt_task_id
        rt_node == find_task_node_by_id(K.kcb, id)
    IN IF rt_node = NULL THEN sched_select_next_task(K)
       ELSE IF rt_node # K.kcb.task_current
       THEN LET prev == node_data(K.kcb.task_current)
                K1 == [K EXCEPT !.tcb[prev].state =
                           IF @ = TASK_RUNNING THEN TASK_READY ELSE @]
            IN [K1 EXCEPT !.kcb.task_current = rt_node,
                          !.tcb[id].state = TASK_RUNNING,
                          !.tcb[id].time_slice =
                              get_priority_timeslice(K1.tcb[id].prio_level)]
       ELSE K

(* dispatch() that counts the delays down on every call, not once a tick *)
dispatch_every_call(K, rt) ==
    IF Halted(K) THEN K ELSE
    IF node_data(K.kcb.task_current) = 0 THEN panic(K, "ERR_NO_TASKS") ELSE
    LET K1 == [delay_update_from(K, 1) EXCEPT
                   !.kcb.last_delay_update_tick = K.kcb.ticks]
        K2 == dispatch_elect(K1, rt)
        K3 == dispatch_skip(K2, 0)
    IN IF Halted(K3) THEN K3 ELSE
       LET next_task == node_data(K3.kcb.task_current)
       IN [K3 EXCEPT !.tcb[next_task].state = TASK_RUNNING,
                     !.tcb[next_task].time_slice =
                         get_priority_timeslice(K3.tcb[next_task].prio_level)]

dispatch(K, rt) ==
    IF Halted(K) THEN K ELSE
    IF node_data(K.kcb.task_current) = 0 THEN panic(K, "ERR_NO_TASKS") ELSE
    LET K1 == IF K.kcb.ticks # K.kcb.last_delay_update_tick
              THEN [delay_update_from(K, 1) EXCEPT
                        !.kcb.last_delay_update_tick = K.kcb.ticks]
              ELSE K
        K2 == dispatch_elect(K1, rt)
        K3 == dispatch_skip(K2, 0)
    IN IF Halted(K3) THEN K3 ELSE
       LET next_task == node_data(K3.kcb.task_current)
       IN [K3 EXCEPT !.tcb[next_task].state = TASK_RUNNING,
                     !.tcb[next_task].time_slice =
                         get_priority_timeslice(K3.tcb[next_task].prio_level)]

(* dispatcher(from_timer): the C entry of the timer interrupt and ecall *)
dispatcher(K, from_timer, rt) ==
    IF Halted(K) THEN K ELSE
    LET K1 == IF from_timer
              THEN [K EXCEPT !.kcb.ticks = IF @ = TICKS_LOW_MAX THEN 0 ELSE @ + 1,
                             !.kcb.ticks_bit31 =
                                 IF K.kcb.ticks = TICKS_LOW_MAX THEN 1 - @ ELSE @]
              ELSE K
        K2 == sched_tick_current_task(K1)
    IN dispatch([K2 EXCEPT !.kcb.timer_work_pending = TRUE], rt)

(* noop_rtsched: the hook installed by default expresses no preference *)
noop_rtsched == {-1}

(* -------------------------- software timers -------------------------- *)
TIMER_DISABLED == "TIMER_DISABLED"
TIMER_ONESHOT == "TIMER_ONESHOT"
TIMER_AUTORELOAD == "TIMER_AUTORELOAD"

(* A timer_t of timer_pool.  period is MS_TO_TICKS(period_ms); linked is   *)
(* t_running_node.next != NULL; fired counts the calls of its callback.    *)
(* kcb.undefined records that the step has run undefined behaviour:        *)
(* free() of a node embedded in the static timer_pool, or a read through   *)
(* the pointer that container_of makes of a NULL node.                     *)

(* list_remove(list, &t->t_running_node): unlinks the node when it is in   *)
(* the list and passes it to free(); the node's next field is left as is   *)
timer_remove_from_running_list(K, id) ==
    IF K.kcb.timer_list = <<>> \/ ~InSeq(K.kcb.timer_list, id) THEN K
    ELSE [K EXCEPT !.kcb.timer_list = RemoveFrom(@, id),
                   !.kcb.undefined = TRUE]

(* index of the first node whose deadline is later than d, or Len + 1 *)
timer_insertion_point(K, d) ==
    LET L == K.kcb.timer_list
        later == {i \in 1..Len(L) : d < K.kcb.timer_pool[L[i]].deadline_ticks}
    IN IF later = {} THEN Len(L) + 1
       ELSE CHOOSE i \in later : \A j \in later : i <= j

timer_sorted_insert_running_list(K, id) ==
    IF K.kcb.timer_pool[id].linked THEN K
    ELSE LET L == K.kcb.timer_list
             pos == timer_insertion_point(K, K.kcb.timer_pool[id].deadline_ticks)
         IN [K EXCEPT !.kcb.timer_list =
                          SubSeq(L, 1, pos - 1) \o <<id>> \o SubSeq(L, pos, Len(L)),
                      !.kcb.timer_pool[id].linked = TRUE]

timer_find_by_id_fast(k, id) == IF InSeq(k.all_timers_list, id) THEN id ELSE 0

(* number of timers at the head of the active list that have expired,     *)
(* at most TIMER_BATCH_SIZE                                               *)
expired_count(K) ==
    LET L == K.kcb.timer_list
        most == IF Len(L) < TIMER_BATCH_SIZE THEN Len(L) ELSE TIMER_BATCH_SIZE
        ns == {n \in 0..most :
                 \A i \in 1..n : K.kcb.ticks >= K.kcb.timer_pool[L[i]].deadline_ticks}
    IN CHOOSE n \in ns : \A m \in ns : m <= n

(* _timer_tick_handler: the expired timers are taken off the list with    *)
(* list_pop, which frees the embedded node and returns node->data, NULL   *)
(* for a timer node; the second loop reads callback and mode through      *)
(* timer_from_running_node(NULL), so it neither calls the callbacks of    *)
(* the popped timers nor writes their mode, deadline or next field.       *)
timer_tick_handler(K) ==
    IF ~K.kcb.timer_initialized \/ K.kcb.timer_list = <<>> THEN K
    ELSE LET n == expired_count(K)
         IN IF n = 0 THEN K
            ELSE [K EXCEPT !.kcb.timer_list = SubSeq(@, n + 1, Len(@)),
                           !.kcb.undefined = TRUE]

(* process_deferred_timer_work and process_timer_work *)
process_deferred_timer_work(K) ==
    IF Halted(K) \/ ~K.kcb.timer_work_pending THEN K
    ELSE timer_tick_handler([K EXCEPT !.kcb.timer_work_pending = FALSE])

(* mo_timer_create(callback, period_ms, arg) with a non-NULL callback *)
mo_timer_create(K, period) ==
    IF period = 0 \/ Len(K.kcb.all_timers_list) >= TIMER_NODE_POOL_SIZE THEN K
    ELSE LET id == K.kcb.next_id
             t == [mode |-> TIMER_DISABLED, deadline_ticks |-> 0,
                   last_expected_fire_tick |-> 0, period |-> period,
                   linked |-> FALSE, fired |-> 0]
         IN [K EXCEPT !.kcb.timer_initialized = TRUE,
                      !.kcb.timer_pool = (id :> t) @@ @,
                      !.kcb.all_timers_list = Append(@, id),
                      !.kcb.next_id = (@ + 1) % TID_LIMIT]

(* mo_timer_start: R = [K, res] *)
timer_start(K, id, mode) ==
    IF mode \notin {TIMER_ONESHOT, TIMER_AUTORELOAD} \/ ~K.kcb.timer_initialized
       \/ timer_find_by_id_fast(K.kcb, id) = 0
    THEN [K |-> K, res |-> "ERR_FAIL"]
    ELSE LET K1 == IF K.kcb.timer_pool[id].mode # TIMER_DISABLED
                   THEN timer_remove_from_running_list(K, id) ELSE K
             fire == K.kcb.ticks + K.kcb.timer_pool[id].period
             K2 == [K1 EXCEPT !.kcb.timer_pool[id].mode = mode,
                              !.kcb.timer_pool[id].last_expected_fire_tick = fire,
                              !.kcb.timer_pool[id].deadline_ticks = fire]
         IN [K |-> timer_sorted_insert_running_list(K2, id), res |-> "ERR_OK"]

(* mo_timer_cancel that marks the timer DISABLED and leaves it linked *)
timer_cancel_linked(K, id) ==
    IF ~K.kcb.timer_initialized \/ timer_find_by_id_fast(K.kcb, id) = 0
    THEN [K |-> K, res |-> "ERR_FAIL"]
    ELSE IF K.kcb.timer_pool[id].mode = TIMER_DISABLED
    THEN [K |-> K, res |-> "ERR_FAIL"]
    ELSE [K |-> [K EXCEPT !.kcb.timer_pool[id].mode = TIMER_DISABLED],
          res |-> "ERR_OK"]

(* mo_timer_cancel: R = [K, res] *)
timer_cancel(K, id) ==
    IF ~K.kcb.timer_initialized \/ timer_find_by_id_fast(K.kcb, id) = 0
    THEN [K |-> K, res |-> "ERR_FAIL"]
    ELSE IF K.kcb.timer_pool[id].mode = TIMER_DISABLED
    THEN [K |-> K, res |-> "ERR_FAIL"]
    ELSE LET K1 == timer_remove_from_running_list(K, id)
         IN [K |-> [K1 EXCEPT !.kcb.timer_pool[id].mode = TIMER_DISABLED],
             res |-> "ERR_OK"]

(* mo_timer_destroy: R = [K, res] *)
timer_destroy(K, id) ==
    IF ~K.kcb.timer_initialized \/ ~InSeq(K.kcb.all_timers_list, id)
    THEN [K |-> K, res |-> "ERR_FAIL"]
    ELSE LET K1 == IF K.kcb.timer_pool[id].mode # TIMER_DISABLED
                   THEN timer_remove_from_running_list(K, id) ELSE K
         IN [K |-> [K1 EXCEPT !.kcb.all_timers_list = RemoveFrom(@, id)],
             res |-> "ERR_OK"]

(* delay_update on one node of the master list (cooperative mode) *)
delay_update(K, t) ==
    IF Halted(K) \/ K.tcb[t].state # TASK_BLOCKED THEN K
    ELSE IF K.tcb[t].delay > 0
    THEN IF K.tcb[t].delay - 1 = 0
         THEN sched_enqueue_task([K EXCEPT !.tcb[t].delay = 0,
                                           !.tcb[t].state = TASK_READY], t)
         ELSE [K EXCEPT !.tcb[t].delay = @ - 1]
    ELSE K

(* list_foreach(kcb->tasks, delay_update, NULL) *)
RECURSIVE delay_update_all(_, _)
delay_update_all(K, i) ==
    IF i > Len(K.kcb.tasks) THEN K
    ELSE delay_update_all(delay_update(K, K.kcb.tasks[i]), i + 1)

(* yield(): deferred timer work; in preemptive mode an ecall, taken as a   *)
(* trap into dispatcher(0); in cooperative mode the delays are counted    *)
(* and the next task is selected and resumed                              *)
yield(K, rt) ==
    IF Halted(K) \/ node_data(K.kcb.task_current) = 0 THEN K
    ELSE LET K1 == process_deferred_timer_work(K)
         IN IF K1.kcb.preemptive THEN dispatcher(K1, FALSE, rt)
            ELSE sched_select_next_task(delay_update_all(K1, 1))

(* ------------------------- wait queue (queue_t) ----------------------- *)
ispowerof2(x) == x \in {1, 2, 4, 8, 16, 32, 64}
nextpowerof2(x) == CHOOSE p \in {1, 2, 4, 8, 16, 32, 64} :
                       p >= x /\ \A r \in {1, 2, 4, 8, 16, 32, 64} : r >= x => p <= r
queue_create(capacity) ==
    LET c1 == IF capacity < 2 THEN 2 ELSE capacity
        c2 == IF ispowerof2(c1) THEN c1 ELSE nextpowerof2(c1)
    IN [items |-> <<>>, size |-> c2]
queue_count(q) == Len(q.items)
queue_is_full(q) == Len(q.items) = q.size - 1

(* mo_sem_create(max_waiters, initial_count) *)
mo_sem_create(max_waiters, initial_count) ==
    [wait_q |-> queue_create(max_waiters), count |-> initial_count,
     max_waiters |-> max_waiters]

(* --------------------------- construction ---------------------------- *)
kcb_initial ==
    [tasks |-> <<>>, task_current |-> NULL, ticks |-> 0, ticks_bit31 |-> 0,
     last_delay_update_tick |-> 0, ready_bitmap |-> {},
     ready_queues |-> [l \in Levels |-> <<>>], rq_created |-> {},
     rr_cursors |-> [l \in Levels |-> NULL], halt |-> NoHalt,
     next_tid |-> 1, task_count |-> 0,
     timer_list |-> <<>>, all_timers_list |-> <<>>,
     timer_pool |-> [id \in {} |-> 0], timer_initialized |-> FALSE,
     next_id |-> TIMER_ID_BASE, timer_work_pending |-> FALSE,
     undefined |-> FALSE, preemptive |-> TRUE,
     mtime |-> 0, mtimecmp |-> TickCycles,
     pool |-> [free_mask |-> 0..(TIMER_NODE_POOL_SIZE - 1),
               got |-> [t \in Tasks |-> -1],
               id |-> [i \in 0..(TIMER_NODE_POOL_SIZE - 1) |-> 0],
               list |-> <<>>, ret |-> {}]]

(* mo_task_spawn: the new task gets id next_tid++ and NormalLevel, is      *)
(* appended to kcb->tasks and enqueued                                    *)
mo_task_spawn(K) ==
    LET id == K.kcb.next_tid
        new == [state |-> "STOPPED", delay |-> 0,
                time_slice |-> get_priority_timeslice(
                                   extract_priority_level(TASK_PRIO_NORMAL)),
                prio_level |-> extract_priority_level(TASK_PRIO_NORMAL),
                current_ticks |-> 0]
        K1 == [tcb |-> IF id \in DOMAIN K.tcb THEN [K.tcb EXCEPT ![id] = new]
                       ELSE (id :> new) @@ K.tcb,
               kcb |-> [K.kcb EXCEPT !.tasks = Append(@, id),
                                     !.next_tid = (@ + 1) % TID_LIMIT,
                                     !.task_count = (@ + 1) % TID_LIMIT,
                                     !.task_current =
                                         IF @ = NULL THEN rq_node(id) ELSE @]]
    IN sched_enqueue_task(K1, id)

(* app_main spawning n tasks *)
RECURSIVE spawn_all(_, _)
spawn_all(K, n) == IF n = 0 THEN K ELSE spawn_all(mo_task_spawn(K), n - 1)

(* app_main spawns the tasks; main() then starts the first one with the   *)
(* timer enabled (hal_dispatch_init).                                     *)
Booted ==
    spawn_all([tcb |-> [t \in Tasks |-> [state |-> "STOPPED", delay |-> 0,
                                          time_slice |-> 0, prio_level |-> NormalLevel,
                                          current_ticks |-> 0]],
               kcb |-> kcb_initial], NTasks)

NoEvent == [op |-> "boot", t |-> 0, res |-> "none"]
Event(op, t, res) == [op |-> op, t |-> t, res |-> res]

Init ==
    /\ tcb = Booted.tcb
    /\ kcb = Booted.kcb
    /\ mtie = TRUE
    /\ pc = [t \in Tasks |-> "run"]
    /\ sem = mo_sem_create(SemWaiters, SemInitial)
    /\ mtx = [owner_tid |-> 0, waiters |-> <<>>]
    /\ cnd = [waiters |-> <<>>]
    /\ ev = NoEvent
    /\ tokens = SemInitial

(* ------------------------------ helpers ------------------------------ *)
(* the model follows the tick counter for MaxTicks ticks from 0 and for  *)
(* MaxTicks ticks up to the carry out of bit 30                          *)
TicksInBound(k) == k.ticks < MaxTicks \/ k.ticks > TICKS_LOW_MAX - MaxTicks
Kern == [tcb |-> tcb, kcb |-> kcb]
(* the step's result becomes the next state; a step that ran undefined    *)
(* behaviour either goes on or ends in the exception path of do_trap       *)
Commit(K) ==
    \E fault \in (IF K.kcb.undefined THEN {FALSE, TRUE} ELSE {FALSE}) :
       /\ tcb' = K.tcb
       /\ kcb' = [K.kcb EXCEPT !.undefined = FALSE,
                               !.halt = IF fault /\ @ = NoHalt
                                        THEN "EXCEPTION" ELSE @]
OnCpu(t) == kcb.halt = NoHalt /\ node_data(kcb.task_current) = t
At(t, label) == OnCpu(t) /\ pc[t] = label
Goto(t, label) == pc' = [pc EXCEPT ![t] = label]

(* ------------------------- timer interrupt --------------------------- *)
Tick ==
    /\ kcb.halt = NoHalt
    /\ mtie
    /\ TicksInBound(kcb)
    /\ \E rt \in noop_rtsched : Commit(dispatcher(Kern, TRUE, rt))
    /\ ev' = NoEvent
    /\ UNCHANGED <<mtie, pc, sem, mtx, cnd, tokens>>

(* timer interrupt and mo_task_yield with an application's rt hook       *)
(* installed in kcb->rt_sched; rt is the value the hook returns          *)
timer_interrupt(rt) ==
    /\ kcb.halt = NoHalt
    /\ mtie
    /\ TicksInBound(kcb)
    /\ Commit(dispatcher(Kern, TRUE, rt))
    /\ ev' = NoEvent
    /\ UNCHANGED <<mtie, pc, sem, mtx, cnd, tokens>>

task_yield(t, rt) ==
    /\ At(t, "run")
    /\ Commit(yield(Kern, rt))
    /\ ev' = NoEvent
    /\ UNCHANGED <<mtie, pc, sem, mtx, cnd, tokens>>

(* ----------------------------- task API ------------------------------ *)
mo_task_yield(t) ==
    /\ At(t, "run")
    /\ \E rt \in noop_rtsched : Commit(yield(Kern, rt))
    /\ ev' = NoEvent
    /\ UNCHANGED <<mtie, pc, sem, mtx, cnd, tokens>>

(* mo_task_delay up to NOSCHED_LEAVE *)
mo_task_delay(t, ticks) ==
    /\ At(t, "run")
    /\ LET K1 == sched_dequeue_task(process_deferred_timer_work(Kern), t)
       IN Commit([K1 EXCEPT !.tcb[t].delay = ticks,
                            !.tcb[t].state = TASK_BLOCKED])
    /\ mtie' = TRUE
    /\ Goto(t, "delay_yield")
    /\ ev' = Event("delay", t, "none")
    /\ UNCHANGED <<sem, mtx, cnd, tokens>>

(* the mo_task_yield() that ends delay, suspend, priority and signal *)
yield_after_call(t) ==
    /\ OnCpu(t)
    /\ pc[t] \in {"delay_yield", "suspend_yield", "priority_yield",
                  "sem_signal_yield"}
    /\ \E rt \in noop_rtsched : Commit(yield(Kern, rt))
    /\ Goto(t, "run")
    /\ ev' = NoEvent
    /\ UNCHANGED <<mtie, sem, mtx, cnd, tokens>>

mo_task_suspend(t, id) ==
    /\ At(t, "run")
    /\ IF id = 0 \/ find_task_node_by_id(kcb, id) = NULL
       THEN /\ ev' = Event("suspend", t, "ERR_TASK_NOT_FOUND")
            /\ UNCHANGED <<tcb, kcb, pc>>
       ELSE IF tcb[id].state \notin {TASK_READY, TASK_RUNNING, TASK_BLOCKED}
       THEN /\ ev' = Event("suspend", t, "ERR_TASK_CANT_SUSPEND")
            /\ UNCHANGED <<tcb, kcb, pc>>
       ELSE LET K1 == IF tcb[id].state \in {TASK_READY, TASK_RUNNING}
                      THEN sched_dequeue_task(Kern, id) ELSE Kern
                is_current == node_data(kcb.task_current) = id
            IN /\ Commit([K1 EXCEPT !.tcb[id].state = TASK_SUSPENDED])
               /\ ev' = Event("suspend", t, "ERR_OK")
               /\ Goto(t, IF is_current THEN "suspend_yield" ELSE "run")
    /\ UNCHANGED <<mtie, sem, mtx, cnd, tokens>>

mo_task_resume(t, id) ==
    /\ At(t, "run")
    /\ IF id = 0 \/ find_task_node_by_id(kcb, id) = NULL
       THEN /\ ev' = Event("resume", t, "ERR_TASK_NOT_FOUND")
            /\ UNCHANGED <<tcb, kcb>>
       ELSE IF tcb[id].state # TASK_SUSPENDED
       THEN /\ ev' = Event("resume", t, "ERR_TASK_CANT_RESUME")
            /\ UNCHANGED <<tcb, kcb>>
       ELSE /\ Commit(sched_enqueue_task(Kern, id))
            /\ ev' = Event("resume", t, "ERR_OK")
    /\ UNCHANGED <<mtie, pc, sem, mtx, cnd, tokens>>

(* mo_task_priority once the arguments have passed the entry check;       *)
(* level is extract_priority_level(priority)                              *)
mo_task_priority(t, id, level) ==
    /\ At(t, "run")
    /\ IF find_task_node_by_id(kcb, id) = NULL
       THEN /\ ev' = Event("priority", t, "ERR_TASK_NOT_FOUND")
            /\ UNCHANGED <<tcb, kcb, pc>>
       ELSE
       LET is_current == node_data(kcb.task_current) = id
           K1 == IF tcb[id].state \in {TASK_RUNNING, TASK_READY}
                 THEN sched_enqueue_task(
                          [sched_dequeue_task(Kern, id) EXCEPT
                               !.tcb[id].prio_level = level], id)
                 ELSE Kern
       IN /\ Commit([K1 EXCEPT !.tcb[id].prio_level = level,
                               !.tcb[id].time_slice =
                                   get_priority_timeslice(level)])
          /\ Goto(t, IF is_current THEN "priority_yield" ELSE "run")
          /\ ev' = Event("priority", t, "ERR_OK")
    /\ UNCHANGED <<mtie, sem, mtx, cnd, tokens>>

(* mo_task_priority(id, priority) from its entry check *)
mo_task_priority_checked(t, id, priority) ==
    IF id = 0 \/ ~is_valid_priority(priority)
    THEN /\ At(t, "run")
         /\ ev' = Event("priority", t, "ERR_TASK_INVALID_PRIO")
         /\ UNCHANGED <<tcb, kcb, mtie, pc, sem, mtx, cnd, tokens>>
    ELSE mo_task_priority(t, id, extract_priority_level(priority))

mo_task_id(k) == node_data(k.task_current)
mo_task_count(k) == k.task_count

(* what the memory of a TCB can hold once it has been freed: the old       *)
(* contents, or a state field overwritten by the allocator                 *)
free_tcb(r) == {r, [r EXCEPT !.state = "FREED"]}

(* a running task calls mo_task_spawn; the call returns the new task's id *)
task_spawn(t) ==
    /\ At(t, "run")
    /\ Cardinality(DOMAIN tcb) < NTasks + MaxSpawned
    /\ Commit(mo_task_spawn(Kern))
    /\ ev' = [op |-> "spawn", t |-> t, res |-> "ERR_OK", id |-> kcb.next_tid]
    /\ UNCHANGED <<mtie, pc, sem, mtx, cnd, tokens>>

(* mo_task_cancel without the test for the caller's own id *)
mo_task_cancel_any(t, id) ==
    /\ At(t, "run")
    /\ IF id = 0
       THEN /\ ev' = Event("cancel", t, "ERR_TASK_CANT_REMOVE")
            /\ UNCHANGED <<tcb, kcb>>
       ELSE IF find_task_node_by_id(kcb, id) = NULL
       THEN /\ ev' = Event("cancel", t, "ERR_TASK_NOT_FOUND")
            /\ UNCHANGED <<tcb, kcb>>
       ELSE IF tcb[id].state = TASK_RUNNING
       THEN /\ ev' = Event("cancel", t, "ERR_TASK_CANT_REMOVE")
            /\ UNCHANGED <<tcb, kcb>>
       ELSE LET K1 == [Kern EXCEPT !.kcb.tasks = RemoveFrom(@, id),
                                   !.kcb.task_count =
                                       (@ + TID_LIMIT - 1) % TID_LIMIT]
                K2 == IF tcb[id].state = TASK_READY
                      THEN sched_dequeue_task(K1, id) ELSE K1
            IN /\ \E freed \in free_tcb(K2.tcb[id]) :
                     Commit([K2 EXCEPT !.tcb[id] = freed])
               /\ ev' = Event("cancel", t, "ERR_OK")
    /\ UNCHANGED <<mtie, pc, sem, mtx, cnd, tokens>>

mo_task_cancel(t, id) ==
    /\ At(t, "run")
    /\ IF id = 0 \/ id = mo_task_id(kcb)
       THEN /\ ev' = Event("cancel", t, "ERR_TASK_CANT_REMOVE")
            /\ UNCHANGED <<tcb, kcb>>
       ELSE IF find_task_node_by_id(kcb, id) = NULL
       THEN /\ ev' = Event("cancel", t, "ERR_TASK_NOT_FOUND")
            /\ UNCHANGED <<tcb, kcb>>
       ELSE IF tcb[id].state = TASK_RUNNING
       THEN /\ ev' = Event("cancel", t, "ERR_TASK_CANT_REMOVE")
            /\ UNCHANGED <<tcb, kcb>>
       ELSE LET K1 == [Kern EXCEPT !.kcb.tasks = RemoveFrom(@, id),
                                   !.kcb.task_count =
                                       (@ + TID_LIMIT - 1) % TID_LIMIT]
                K2 == IF tcb[id].state = TASK_READY
                      THEN sched_dequeue_task(K1, id) ELSE K1
            IN /\ \E freed \in free_tcb(K2.tcb[id]) :
                     Commit([K2 EXCEPT !.tcb[id] = freed])
               /\ ev' = Event("cancel", t, "ERR_OK")
    /\ UNCHANGED <<mtie, pc, sem, mtx, cnd, tokens>>

(* mo_task_wfi: deferred timer work; in cooperative mode it returns at   *)
(* once; in preemptive mode it notes kcb->ticks and waits for a change   *)
mo_task_wfi(t) ==
    /\ At(t, "run")
    /\ Commit([process_deferred_timer_work(Kern)
                  EXCEPT !.tcb[t].current_ticks = kcb.ticks])
    /\ IF kcb.preemptive
       THEN Goto(t, "wfi") /\ ev' = Event("wfi", t, "waiting")
       ELSE UNCHANGED pc /\ ev' = Event("wfi", t, "returned")
    /\ UNCHANGED <<mtie, sem, mtx, cnd, tokens>>

(* the loop of mo_task_wfi ends when kcb->ticks differs from the noted value *)
mo_task_wfi_return(t) ==
    /\ At(t, "wfi")
    /\ tcb[t].current_ticks # kcb.ticks
    /\ Goto(t, "run")
    /\ ev' = Event("wfi", t, "returned")
    /\ UNCHANGED <<tcb, kcb, mtie, sem, mtx, cnd, tokens>>

(* ----------------------------- timer API ----------------------------- *)
mo_timer_start(t, id, mode) ==
    /\ At(t, "run")
    /\ LET R == timer_start(Kern, id, mode)
       IN Commit(R.K) /\ ev' = Event("timer_start", t, R.res)
    /\ mtie' = ((mode \in {TIMER_ONESHOT, TIMER_AUTORELOAD}
                 /\ kcb.timer_initialized) \/ mtie)
    /\ UNCHANGED <<pc, sem, mtx, cnd, tokens>>

mo_timer_cancel(t, id) ==
    /\ At(t, "run")
    /\ LET R == timer_cancel(Kern, id)
       IN Commit(R.K) /\ ev' = Event("timer_cancel", t, R.res)
    /\ mtie' = (kcb.timer_initialized \/ mtie)
    /\ UNCHANGED <<pc, sem, mtx, cnd, tokens>>

mo_timer_destroy(t, id) ==
    /\ At(t, "run")
    /\ LET R == timer_destroy(Kern, id)
       IN Commit(R.K) /\ ev' = Event("timer_destroy", t, R.res)
    /\ mtie' = (kcb.timer_initialized \/ mtie)
    /\ UNCHANGED <<pc, sem, mtx, cnd, tokens>>

(* ---------------------------- semaphore ------------------------------ *)
(* _sched_block(wait_q): dequeue self from the ready queue, enqueue on    *)
(* wait_q, mark BLOCKED, _yield().  W = [K, q].                           *)
(* _sched_block that puts the caller at the head of the wait queue *)
sched_block_front(K, q, t, rt) ==
    LET K1 == sched_dequeue_task(process_deferred_timer_work(K), t)
    IN IF queue_is_full(q)
       THEN [K |-> panic(K1, "ERR_SEM_OPERATION"), q |-> q]
       ELSE [K |-> yield([K1 EXCEPT !.tcb[t].state = TASK_BLOCKED], rt),
             q |-> [q EXCEPT !.items = <<t>> \o @]]

sched_block(K, q, t, rt) ==
    LET K1 == sched_dequeue_task(process_deferred_timer_work(K), t)
    IN IF queue_is_full(q)
       THEN [K |-> panic(K1, "ERR_SEM_OPERATION"), q |-> q]
       ELSE [K |-> yield([K1 EXCEPT !.tcb[t].state = TASK_BLOCKED], rt),
             q |-> [q EXCEPT !.items = Append(@, t)]]

(* _sched_block_enqueue *)
sched_block_enqueue(K, t) ==
    IF K.tcb[t].state # TASK_BLOCKED THEN K ELSE sched_enqueue_task(K, t)

mo_sem_wait(t) ==
    /\ At(t, "run")
    /\ tokens >= 0
    /\ IF sem.count > 0 /\ queue_count(sem.wait_q) = 0
       THEN /\ sem' = [sem EXCEPT !.count = @ - 1]
            /\ mtie' = TRUE
            /\ tokens' = tokens - 1
            /\ ev' = Event("sem_wait", t, "ERR_OK")
            /\ UNCHANGED <<tcb, kcb, pc>>
       ELSE IF queue_count(sem.wait_q) >= sem.max_waiters
       THEN /\ Commit(panic(Kern, "ERR_SEM_OPERATION"))
            /\ mtie' = TRUE
            /\ ev' = Event("sem_wait", t, "panic")
            /\ UNCHANGED <<sem, pc, tokens>>
       ELSE \E rt \in noop_rtsched :
              LET W == sched_block(Kern, sem.wait_q, t, rt)
              IN /\ Commit(W.K)
                 /\ sem' = [sem EXCEPT !.wait_q = W.q]
                 /\ mtie' = FALSE
                 /\ Goto(t, "sem_wait_ret")
                 /\ ev' = Event("sem_wait", t, "blocked")
                 /\ UNCHANGED tokens
    /\ UNCHANGED <<mtx, cnd>>

(* mo_sem_wait returns to a caller that had blocked *)
mo_sem_wait_return(t) ==
    /\ At(t, "sem_wait_ret")
    /\ Goto(t, "run")
    /\ tokens' = tokens - 1
    /\ ev' = Event("sem_wait", t, "ERR_OK")
    /\ UNCHANGED <<tcb, kcb, mtie, sem, mtx, cnd>>

mo_sem_trywait(t) ==
    /\ At(t, "run")
    /\ tokens >= 0
    /\ IF sem.count > 0 /\ queue_count(sem.wait_q) = 0
       THEN /\ sem' = [sem EXCEPT !.count = @ - 1]
            /\ tokens' = tokens - 1
            /\ ev' = Event("sem_trywait", t, "ERR_OK")
       ELSE /\ ev' = Event("sem_trywait", t, "ERR_FAIL")
            /\ UNCHANGED <<sem, tokens>>
    /\ mtie' = TRUE
    /\ UNCHANGED <<tcb, kcb, pc, mtx, cnd>>

(* mo_sem_signal that counts the token even though it wakes a waiter *)
mo_sem_signal_counting(t) ==
    /\ At(t, "run")
    /\ queue_count(sem.wait_q) > 0 \/ sem.count < MaxCount
    /\ IF queue_count(sem.wait_q) > 0
       THEN LET awakened_task == Head(sem.wait_q.items)
            IN /\ sem' = [sem EXCEPT !.count = @ + 1]
               /\ Commit(sched_block_enqueue(Kern, awakened_task))
               /\ mtie' = TRUE
               /\ Goto(t, "sem_signal_yield")
               /\ tokens' = tokens + 1
               /\ ev' = Event("sem_signal", t, "woke")
       ELSE /\ sem' = [sem EXCEPT !.count = @ + 1]
            /\ tokens' = tokens + 1
            /\ mtie' = TRUE
            /\ ev' = Event("sem_signal", t, "counted")
            /\ UNCHANGED <<tcb, kcb, pc>>
    /\ UNCHANGED <<mtx, cnd>>

(* mo_sem_signal up to NOSCHED_LEAVE *)
mo_sem_signal(t) ==
    /\ At(t, "run")
    /\ queue_count(sem.wait_q) > 0 \/ sem.count < MaxCount
    /\ IF queue_count(sem.wait_q) > 0
       THEN LET awakened_task == Head(sem.wait_q.items)
            IN /\ sem' = [sem EXCEPT !.wait_q.items = Tail(@)]
               /\ IF tcb[awakened_task].state = TASK_BLOCKED
                  THEN /\ Commit(sched_block_enqueue(Kern, awakened_task))
                       /\ mtie' = TRUE
                       /\ Goto(t, "sem_signal_yield")
                       /\ tokens' = tokens + 1
                       /\ ev' = Event("sem_signal", t, "woke")
                  ELSE /\ Commit(panic(Kern, "ERR_SEM_OPERATION"))
                       /\ ev' = Event("sem_signal", t, "panic")
                       /\ UNCHANGED <<mtie, pc, tokens>>
       ELSE /\ sem' = [sem EXCEPT !.count =
                           IF @ < SEM_MAX_COUNT THEN @ + 1 ELSE @]
            /\ tokens' = IF sem.count < SEM_MAX_COUNT THEN tokens + 1
                         ELSE tokens
            /\ mtie' = TRUE
            /\ ev' = Event("sem_signal", t, "counted")
            /\ UNCHANGED <<tcb, kcb, pc>>
    /\ UNCHANGED <<mtx, cnd>>

(* ------------------------------ mutex -------------------------------- *)
(* list_remove of the first node of a wait list that refers to task t *)
RemoveFirst(s, t) ==
    IF ~InSeq(s, t) THEN s
    ELSE LET i == CHOOSE j \in 1..Len(s) :
                      s[j] = t /\ \A m \in 1..(j - 1) : s[m] # t
         IN SubSeq(s, 1, i - 1) \o SubSeq(s, i + 1, Len(s))

(* remove_self_from_waiters: TRUE iff self was on the list *)
remove_self_from_waiters(waiters, t) == RemoveFirst(waiters, t)

(* mo_mutex_lock; a caller that must wait goes through                    *)
(* mutex_block_atomic: pushed on the wait list, BLOCKED, _yield()         *)
mutex_lock_step(t, ret_label, blocked_label, op) ==
    IF mtx.owner_tid = t
    THEN /\ mtie' = TRUE
         /\ Goto(t, ret_label)
         /\ ev' = Event(op, t, "ERR_TASK_BUSY")
         /\ UNCHANGED <<tcb, kcb, mtx>>
    ELSE IF mtx.owner_tid = 0
    THEN /\ mtx' = [mtx EXCEPT !.owner_tid = t]
         /\ mtie' = TRUE
         /\ Goto(t, ret_label)
         /\ ev' = Event(op, t, "ERR_OK")
         /\ UNCHANGED <<tcb, kcb>>
    ELSE /\ Len(mtx.waiters) < MaxWaiters
         /\ mtx' = [mtx EXCEPT !.waiters = Append(@, t)]
         /\ \E rt \in noop_rtsched :
               Commit(yield([Kern EXCEPT !.tcb[t].state = TASK_BLOCKED], rt))
         /\ mtie' = FALSE
         /\ Goto(t, blocked_label)
         /\ ev' = Event(op, t, "blocked")

mo_mutex_lock(t) ==
    /\ At(t, "run")
    /\ mutex_lock_step(t, "run", "mutex_lock_ret", "mutex_lock")
    /\ UNCHANGED <<sem, cnd, tokens>>

(* mo_mutex_lock returns ERR_OK to a caller that had blocked *)
mo_mutex_lock_return(t) ==
    /\ At(t, "mutex_lock_ret")
    /\ Goto(t, "run")
    /\ ev' = Event("mutex_lock", t, "ERR_OK")
    /\ UNCHANGED <<tcb, kcb, mtie, sem, mtx, cnd, tokens>>

mo_mutex_trylock(t) ==
    /\ At(t, "run")
    /\ IF mtx.owner_tid # t /\ mtx.owner_tid = 0
       THEN /\ mtx' = [mtx EXCEPT !.owner_tid = t]
            /\ ev' = Event("mutex_trylock", t, "ERR_OK")
       ELSE /\ ev' = Event("mutex_trylock", t, "ERR_TASK_BUSY")
            /\ UNCHANGED mtx
    /\ mtie' = TRUE
    /\ UNCHANGED <<tcb, kcb, pc, sem, cnd, tokens>>

(* mo_mutex_timedlock(m, ticks), ticks > 0, up to NOSCHED_LEAVE *)
mo_mutex_timedlock(t, ticks) ==
    /\ At(t, "run")
    /\ IF mtx.owner_tid = t
       THEN /\ ev' = Event("mutex_timedlock", t, "ERR_TASK_BUSY")
            /\ UNCHANGED <<tcb, kcb, mtx, pc>>
       ELSE IF mtx.owner_tid = 0
       THEN /\ mtx' = [mtx EXCEPT !.owner_tid = t]
            /\ ev' = Event("mutex_timedlock", t, "ERR_OK")
            /\ UNCHANGED <<tcb, kcb, pc>>
       ELSE /\ Len(mtx.waiters) < MaxWaiters
            /\ mtx' = [mtx EXCEPT !.waiters = Append(@, t)]
            /\ tcb' = [tcb EXCEPT ![t].delay = ticks,
                                  ![t].state = TASK_BLOCKED]
            /\ Goto(t, "timedlock_yield")
            /\ ev' = Event("mutex_timedlock", t, "blocked")
            /\ UNCHANGED kcb
    /\ mtie' = TRUE
    /\ UNCHANGED <<sem, cnd, tokens>>

(* the mo_task_yield() inside mo_mutex_timedlock *)
mo_mutex_timedlock_yield(t) ==
    /\ At(t, "timedlock_yield")
    /\ \E rt \in noop_rtsched : Commit(yield(Kern, rt))
    /\ Goto(t, "timedlock_check")
    /\ ev' = NoEvent
    /\ UNCHANGED <<mtie, sem, mtx, cnd, tokens>>

(* mo_mutex_timedlock after the yield: why did we wake up *)
mo_mutex_timedlock_check(t) ==
    /\ At(t, "timedlock_check")
    /\ IF tcb[t].state = TASK_BLOCKED
       THEN IF InSeq(mtx.waiters, t)
            THEN /\ mtx' = [mtx EXCEPT !.waiters =
                                remove_self_from_waiters(@, t)]
                 /\ tcb' = [tcb EXCEPT ![t].state = TASK_READY]
                 /\ ev' = Event("mutex_timedlock", t, "ERR_TIMEOUT")
            ELSE /\ ev' = Event("mutex_timedlock", t,
                                IF mtx.owner_tid = t THEN "ERR_OK"
                                ELSE "ERR_TIMEOUT")
                 /\ UNCHANGED <<tcb, mtx>>
       ELSE /\ ev' = Event("mutex_timedlock", t,
                           IF mtx.owner_tid = t THEN "ERR_OK" ELSE "ERR_FAIL")
            /\ UNCHANGED <<tcb, mtx>>
    /\ mtie' = TRUE
    /\ Goto(t, "run")
    /\ UNCHANGED <<kcb, sem, cnd, tokens>>

(* mo_mutex_unlock that always leaves the mutex free, waiters or not *)
mutex_unlock_free(K, m, t) ==
    IF m.owner_tid # t
    THEN [K |-> K, mtx |-> m, res |-> "ERR_NOT_OWNER"]
    ELSE [K |-> K, mtx |-> [m EXCEPT !.owner_tid = 0], res |-> "ERR_OK"]

(* the body of mo_mutex_unlock: M = [K, mtx, res] *)
mutex_unlock(K, m, t) ==
    IF m.owner_tid # t
    THEN [K |-> K, mtx |-> m, res |-> "ERR_NOT_OWNER"]
    ELSE IF m.waiters = <<>>
    THEN [K |-> K, mtx |-> [m EXCEPT !.owner_tid = 0], res |-> "ERR_OK"]
    ELSE LET next_owner == Head(m.waiters)
             m1 == [m EXCEPT !.waiters = Tail(@)]
         IN IF K.tcb[next_owner].state = TASK_BLOCKED
            THEN [K |-> [K EXCEPT !.tcb[next_owner].state = TASK_READY,
                                  !.tcb[next_owner].delay = 0],
                  mtx |-> [m1 EXCEPT !.owner_tid = next_owner],
                  res |-> "ERR_OK"]
            ELSE [K |-> panic(K, "ERR_SEM_OPERATION"), mtx |-> m1,
                  res |-> "panic"]

mo_mutex_unlock(t) ==
    /\ At(t, "run")
    /\ LET M == mutex_unlock(Kern, mtx, t)
       IN /\ Commit(M.K)
          /\ mtx' = M.mtx
          /\ ev' = Event("mutex_unlock", t, M.res)
          /\ mtie' = IF M.res = "panic" THEN mtie ELSE TRUE
    /\ UNCHANGED <<pc, sem, cnd, tokens>>

(* ------------------------ condition variable ------------------------- *)
(* mo_cond_wait up to the NOSCHED_LEAVE that follows the enqueue *)
mo_cond_wait(t) ==
    /\ At(t, "run")
    /\ IF mtx.owner_tid # t
       THEN /\ ev' = Event("cond_wait", t, "ERR_NOT_OWNER")
            /\ UNCHANGED <<tcb, cnd, pc, mtie>>
       ELSE /\ Len(cnd.waiters) < MaxWaiters
            /\ cnd' = [cnd EXCEPT !.waiters = Append(@, t)]
            /\ tcb' = [tcb EXCEPT ![t].state = TASK_BLOCKED]
            /\ mtie' = TRUE
            /\ Goto(t, "cond_wait_unlock")
            /\ ev' = Event("cond_wait", t, "enqueued")
    /\ UNCHANGED <<kcb, sem, mtx, tokens>>

(* mo_cond_wait: release the mutex *)
mo_cond_wait_unlock(t) ==
    /\ At(t, "cond_wait_unlock")
    /\ LET M == mutex_unlock(Kern, mtx, t)
       IN /\ mtx' = M.mtx
          /\ IF M.res = "ERR_OK"
             THEN /\ Commit(M.K)
                  /\ Goto(t, "cond_wait_yield")
                  /\ ev' = Event("mutex_unlock", t, "ERR_OK")
                  /\ mtie' = TRUE
                  /\ UNCHANGED cnd
             ELSE IF M.res = "panic"
             THEN /\ Commit(M.K)
                  /\ ev' = Event("mutex_unlock", t, "panic")
                  /\ UNCHANGED <<pc, cnd, mtie>>
             ELSE /\ cnd' = [cnd EXCEPT !.waiters =
                                 remove_self_from_waiters(@, t)]
                  /\ Commit([M.K EXCEPT !.tcb[t].state = TASK_READY])
                  /\ Goto(t, "run")
                  /\ ev' = Event("cond_wait", t, M.res)
                  /\ mtie' = TRUE
    /\ UNCHANGED <<sem, tokens>>

(* mo_cond_wait: the mo_task_yield() that waits for the signal *)
mo_cond_wait_yield(t) ==
    /\ At(t, "cond_wait_yield")
    /\ \E rt \in noop_rtsched : Commit(yield(Kern, rt))
    /\ Goto(t, "cond_wait_lock")
    /\ ev' = NoEvent
    /\ UNCHANGED <<mtie, sem, mtx, cnd, tokens>>

(* mo_cond_wait: return mo_mutex_lock(m) *)
mo_cond_wait_lock(t) ==
    /\ At(t, "cond_wait_lock")
    /\ mutex_lock_step(t, "run", "cond_wait_lock_ret", "cond_wait")
    /\ UNCHANGED <<sem, cnd, tokens>>

mo_cond_wait_return(t) ==
    /\ At(t, "cond_wait_lock_ret")
    /\ Goto(t, "run")
    /\ ev' = Event("cond_wait", t, "ERR_OK")
    /\ UNCHANGED <<tcb, kcb, mtie, sem, mtx, cnd, tokens>>

(* mo_cond_timedwait(c, m, ticks), ticks > 0, up to the NOSCHED_LEAVE that  *)
(* follows the enqueue                                                     *)
mo_cond_timedwait(t, ticks) ==
    /\ At(t, "run")
    /\ IF mtx.owner_tid # t
       THEN /\ ev' = Event("cond_timedwait", t, "ERR_NOT_OWNER")
            /\ UNCHANGED <<tcb, cnd, pc, mtie>>
       ELSE /\ Len(cnd.waiters) < MaxWaiters
            /\ cnd' = [cnd EXCEPT !.waiters = Append(@, t)]
            /\ tcb' = [tcb EXCEPT ![t].delay = ticks,
                                  ![t].state = TASK_BLOCKED]
            /\ mtie' = TRUE
            /\ Goto(t, "cond_timedwait_unlock")
            /\ ev' = Event("cond_timedwait", t, "enqueued")
    /\ UNCHANGED <<kcb, sem, mtx, tokens>>

(* mo_cond_timedwait: release the mutex *)
mo_cond_timedwait_unlock(t) ==
    /\ At(t, "cond_timedwait_unlock")
    /\ LET M == mutex_unlock(Kern, mtx, t)
       IN /\ mtx' = M.mtx
          /\ IF M.res = "ERR_OK"
             THEN /\ Commit(M.K)
                  /\ Goto(t, "cond_timedwait_yield")
                  /\ ev' = Event("mutex_unlock", t, "ERR_OK")
                  /\ mtie' = TRUE
                  /\ UNCHANGED cnd
             ELSE IF M.res = "panic"
             THEN /\ Commit(M.K)
                  /\ ev' = Event("mutex_unlock", t, "panic")
                  /\ UNCHANGED <<pc, cnd, mtie>>
             ELSE /\ cnd' = [cnd EXCEPT !.waiters =
                                 remove_self_from_waiters(@, t)]
                  /\ Commit([M.K EXCEPT !.tcb[t].state = TASK_READY,
                                        !.tcb[t].delay = 0])
                  /\ Goto(t, "run")
                  /\ ev' = Event("cond_timedwait", t, M.res)
                  /\ mtie' = TRUE
    /\ UNCHANGED <<sem, tokens>>

(* mo_cond_timedwait: the mo_task_yield() that waits for signal or timeout *)
mo_cond_timedwait_yield(t) ==
    /\ At(t, "cond_timedwait_yield")
    /\ \E rt \in noop_rtsched : Commit(yield(Kern, rt))
    /\ Goto(t, "cond_timedwait_check")
    /\ ev' = NoEvent
    /\ UNCHANGED <<mtie, sem, mtx, cnd, tokens>>

(* mo_cond_timedwait after the yield: wait_status, kept in the label *)
mo_cond_timedwait_check(t) ==
    /\ At(t, "cond_timedwait_check")
    /\ IF tcb[t].state = TASK_BLOCKED
       THEN /\ cnd' = [cnd EXCEPT !.waiters = remove_self_from_waiters(@, t)]
            /\ tcb' = [tcb EXCEPT ![t].state = TASK_READY, ![t].delay = 0]
            /\ Goto(t, "cond_timedwait_lock_timeout")
       ELSE /\ Goto(t, "cond_timedwait_lock_ok")
            /\ UNCHANGED <<tcb, cnd>>
    /\ mtie' = TRUE
    /\ ev' = Event("cond_timedwait", t, "checked")
    /\ UNCHANGED <<kcb, sem, mtx, tokens>>

(* mo_cond_timedwait: lock_result = mo_mutex_lock(m); the value returned   *)
(* is ERR_TIMEOUT when wait_status is, lock_result otherwise               *)
mo_cond_timedwait_lock(t) ==
    /\ OnCpu(t)
    /\ pc[t] \in {"cond_timedwait_lock_ok", "cond_timedwait_lock_timeout"}
    /\ LET timeout == pc[t] = "cond_timedwait_lock_timeout"
       IN IF mtx.owner_tid = t
          THEN /\ mtie' = TRUE
               /\ Goto(t, "run")
               /\ ev' = Event("cond_timedwait", t,
                              IF timeout THEN "ERR_TIMEOUT" ELSE "ERR_TASK_BUSY")
               /\ UNCHANGED <<tcb, kcb, mtx>>
          ELSE IF mtx.owner_tid = 0
          THEN /\ mtx' = [mtx EXCEPT !.owner_tid = t]
               /\ mtie' = TRUE
               /\ Goto(t, "run")
               /\ ev' = Event("cond_timedwait", t,
                              IF timeout THEN "ERR_TIMEOUT" ELSE "ERR_OK")
               /\ UNCHANGED <<tcb, kcb>>
          ELSE /\ Len(mtx.waiters) < MaxWaiters
               /\ mtx' = [mtx EXCEPT !.waiters = Append(@, t)]
               /\ \E rt \in noop_rtsched :
                     Commit(yield([Kern EXCEPT !.tcb[t].state = TASK_BLOCKED],
                                  rt))
               /\ mtie' = FALSE
               /\ Goto(t, IF timeout THEN "cond_timedwait_ret_timeout"
                          ELSE "cond_timedwait_ret_ok")
               /\ ev' = Event("cond_timedwait", t, "blocked")
    /\ UNCHANGED <<sem, cnd, tokens>>

(* mo_cond_timedwait returns to a caller that had blocked in mo_mutex_lock *)
mo_cond_timedwait_return(t) ==
    /\ OnCpu(t)
    /\ pc[t] \in {"cond_timedwait_ret_ok", "cond_timedwait_ret_timeout"}
    /\ Goto(t, "run")
    /\ ev' = Event("cond_timedwait", t,
                   IF pc[t] = "cond_timedwait_ret_timeout" THEN "ERR_TIMEOUT"
                   ELSE "ERR_OK")
    /\ UNCHANGED <<tcb, kcb, mtie, sem, mtx, cnd, tokens>>

(* wake the waiters of c in list order: C = [K, waiters] *)
RECURSIVE cond_wake(_, _, _)
cond_wake(K, waiters, n) ==
    IF n = 0 \/ waiters = <<>> \/ Halted(K) THEN [K |-> K, waiters |-> waiters]
    ELSE LET waiter == Head(waiters)
         IN IF K.tcb[waiter].state = TASK_BLOCKED
            THEN cond_wake([K EXCEPT !.tcb[waiter].state = TASK_READY,
                                     !.tcb[waiter].delay = 0],
                           Tail(waiters), n - 1)
            ELSE [K |-> panic(K, "ERR_SEM_OPERATION"),
                  waiters |-> Tail(waiters)]

mo_cond_signal(t) ==
    /\ At(t, "run")
    /\ LET C == cond_wake(Kern, cnd.waiters, 1)
       IN /\ Commit(C.K)
          /\ cnd' = [cnd EXCEPT !.waiters = C.waiters]
          /\ mtie' = IF Halted(C.K) THEN mtie ELSE TRUE
          /\ ev' = Event("cond_signal", t,
                         IF Halted(C.K) THEN "panic" ELSE "ERR_OK")
    /\ UNCHANGED <<pc, sem, mtx, tokens>>

mo_cond_broadcast(t) ==
    /\ At(t, "run")
    /\ LET C == cond_wake(Kern, cnd.waiters, Len(cnd.waiters))
       IN /\ Commit(C.K)
          /\ cnd' = [cnd EXCEPT !.waiters = C.waiters]
          /\ mtie' = IF Halted(C.K) THEN mtie ELSE TRUE
          /\ ev' = Event("cond_broadcast", t,
                         IF Halted(C.K) THEN "panic" ELSE "ERR_OK")
    /\ UNCHANGED <<pc, sem, mtx, tokens>>

(* --------------------------- specifications -------------------------- *)
SchedStep(t) ==
    \/ mo_task_yield(t)
    \/ \E n \in 1..MaxDelay : mo_task_delay(t, n)
    \/ yield_after_call(t)
    \/ \E id \in Tasks : mo_task_suspend(t, id)
    \/ \E id \in Tasks : mo_task_resume(t, id)
    \/ \E id \in Tasks, l \in PrioInputs : mo_task_priority(t, id, l)

SemStep(t) ==
    \/ mo_sem_wait(t)
    \/ mo_sem_wait_return(t)
    \/ mo_sem_trywait(t)
    \/ mo_sem_signal(t)

MutexStep(t) ==
    \/ mo_mutex_lock(t)
    \/ mo_mutex_lock_return(t)
    \/ mo_mutex_trylock(t)
    \/ \E n \in 1..MaxDelay : mo_mutex_timedlock(t, n)
    \/ mo_mutex_timedlock_yield(t)
    \/ mo_mutex_timedlock_check(t)
    \/ mo_mutex_unlock(t)

CondStep(t) ==
    \/ mo_cond_wait(t)
    \/ mo_cond_wait_unlock(t)
    \/ mo_cond_wait_yield(t)
    \/ mo_cond_wait_lock(t)
    \/ mo_cond_wait_return(t)
    \/ mo_cond_signal(t)
    \/ mo_cond_broadcast(t)

Next ==
    \/ Tick
    \/ \E t \in Tasks : SchedStep(t) \/ SemStep(t) \/ MutexStep(t) \/ CondStep(t)

Spec == Init /\ [][Next]_vars

(* tasks that yield, sleep, and suspend / resume each other *)
NextSched ==
    \/ Tick
    \/ \E t \in Tasks :
          \/ mo_task_yield(t)
          \/ \E n \in 1..MaxDelay : mo_task_delay(t, n)
          \/ yield_after_call(t)
          \/ \E id \in Tasks : mo_task_suspend(t, id)
          \/ \E id \in Tasks : mo_task_resume(t, id)
SpecSched == Init /\ [][NextSched]_vars

(* tasks that yield, sleep, and change each other's priority *)
NextPrio ==
    \/ Tick
    \/ \E t \in Tasks :
          \/ mo_task_yield(t)
          \/ \E n \in 1..MaxDelay : mo_task_delay(t, n)
          \/ yield_after_call(t)
          \/ \E id \in Tasks, l \in PrioInputs : mo_task_priority(t, id, l)
SpecPrio == Init /\ [][NextPrio]_vars

(* tasks that use the semaphore, yield, and suspend / resume each other *)
NextSem ==
    \/ Tick
    \/ \E t \in Tasks :
          \/ mo_task_yield(t)
          \/ yield_after_call(t)
          \/ \E id \in Tasks : mo_task_suspend(t, id)
          \/ \E id \in Tasks : mo_task_resume(t, id)
          \/ SemStep(t)
SpecSem == Init /\ [][NextSem]_vars

(* tasks that use the mutex and yield *)
NextMutex == Tick \/ \E t \in Tasks : mo_task_yield(t) \/ MutexStep(t)
SpecMutex == Init /\ [][NextMutex]_vars

(* tasks that use the condition variable with its mutex *)
NextCond ==
    \/ Tick
    \/ \E t \in Tasks :
          \/ mo_task_yield(t)
          \/ mo_mutex_lock(t)
          \/ mo_mutex_lock_return(t)
          \/ mo_mutex_unlock(t)
          \/ CondStep(t)
SpecCond == Init /\ [][NextCond]_vars

(* tasks that use the mutex and change each other's priority *)
NextPrioMutex ==
    \/ Tick
    \/ \E t \in Tasks :
          \/ mo_task_yield(t)
          \/ yield_after_call(t)
          \/ \E id \in Tasks : mo_task_priority(t, id, HighLevel)
          \/ mo_mutex_lock(t)
          \/ mo_mutex_lock_return(t)
          \/ mo_mutex_unlock(t)
SpecPrioMutex == Init /\ [][NextPrioMutex]_vars

(* tasks that wait on the condition variable with a timeout *)
TimedCondStep(t) ==
    \/ \E n \in 1..MaxDelay : mo_cond_timedwait(t, n)
    \/ mo_cond_timedwait_unlock(t)
    \/ mo_cond_timedwait_yield(t)
    \/ mo_cond_timedwait_check(t)
    \/ mo_cond_timedwait_lock(t)
    \/ mo_cond_timedwait_return(t)

NextCondTimed ==
    \/ Tick
    \/ \E t \in Tasks :
          \/ mo_task_yield(t)
          \/ mo_mutex_lock(t)
          \/ mo_mutex_lock_return(t)
          \/ mo_mutex_unlock(t)
          \/ TimedCondStep(t)
          \/ mo_cond_signal(t)
SpecCondTimed == Init /\ [][NextCondTimed]_vars

(* two tasks that sleep and yield, and an idle task that never sleeps *)
IdleTask == NTasks
NextDelay ==
    \/ Tick
    \/ \E t \in Tasks :
          \/ mo_task_yield(t)
          \/ yield_after_call(t)
          \/ t # IdleTask /\ \E n \in 1..MaxDelay : mo_task_delay(t, n)
SpecDelay == Init /\ [][NextDelay]_vars

(* tasks that cancel, suspend, resume and re-prioritise by id, with ids   *)
(* that name a task, the reserved id 0 and an id that was never handed    *)
(* out, and with valid and invalid priority values                        *)
NoSuchId == NTasks + 1
IdInputs == Tasks \cup {0, NoSuchId}
PriorityInputs == {TASK_PRIO_HIGH, TASK_PRIO_HIGH + 1}
NextIds ==
    \/ \E t \in Tasks :
          \/ mo_task_yield(t)
          \/ yield_after_call(t)
          \/ \E id \in IdInputs : mo_task_cancel(t, id)
          \/ \E id \in IdInputs : mo_task_suspend(t, id)
          \/ \E id \in IdInputs : mo_task_resume(t, id)
          \/ \E id \in IdInputs, priority \in PriorityInputs :
                mo_task_priority_checked(t, id, priority)
SpecIds == Init /\ [][NextIds]_vars

(* tasks that cancel and suspend each other, use the semaphore and yield *)
NextCancel ==
    \/ Tick
    \/ \E t \in Tasks :
          \/ mo_task_yield(t)
          \/ yield_after_call(t)
          \/ \E id \in Tasks : mo_task_suspend(t, id)
          \/ mo_sem_wait(t)
          \/ mo_sem_wait_return(t)
          \/ mo_sem_signal(t)
          \/ \E id \in Tasks : mo_task_cancel(t, id)
SpecCancel == Init /\ [][NextCancel]_vars

(* semaphores created empty with max_waiters 1..MaxSemWaiters: app_main *)
(* calls mo_sem_create(N, 0) and the tasks wait on and signal it         *)
InitSemCap ==
    /\ tcb = Booted.tcb
    /\ kcb = Booted.kcb
    /\ mtie = TRUE
    /\ pc = [t \in Tasks |-> "run"]
    /\ sem \in {mo_sem_create(n, 0) : n \in 1..MaxSemWaiters}
    /\ mtx = [owner_tid |-> 0, waiters |-> <<>>]
    /\ cnd = [waiters |-> <<>>]
    /\ ev = NoEvent
    /\ tokens = 0
NextSemCap ==
    \/ Tick
    \/ \E t \in Tasks :
          \/ mo_task_yield(t)
          \/ yield_after_call(t)
          \/ mo_sem_wait(t)
          \/ mo_sem_wait_return(t)
          \/ mo_sem_signal(t)
SpecSemCap == InitSemCap /\ [][NextSemCap]_vars

(* tasks that spawn and cancel tasks at run time; next_tid starts either *)
(* right after boot or where many earlier spawns and cancels have taken  *)
(* the 16-bit counter                                                    *)
InitSpawn ==
    /\ tcb = Booted.tcb
    /\ kcb \in {[Booted.kcb EXCEPT !.next_tid = n] :
                   n \in {NTasks + 1, TID_LIMIT - 1}}
    /\ mtie = TRUE
    /\ pc = [t \in Tasks |-> "run"]
    /\ sem = mo_sem_create(SemWaiters, SemInitial)
    /\ mtx = [owner_tid |-> 0, waiters |-> <<>>]
    /\ cnd = [waiters |-> <<>>]
    /\ ev = NoEvent
    /\ tokens = SemInitial
NextSpawn ==
    \/ Tick
    \/ \E t \in Tasks :
          \/ mo_task_yield(t)
          \/ task_spawn(t)
          \/ \E id \in DOMAIN tcb : mo_task_cancel(t, id)
SpecSpawn == InitSpawn /\ [][NextSpawn]_vars

(* app_main creates NTimers timers with periods of 1..MaxPeriod ticks;   *)
(* the tasks start, cancel and destroy them, yield, and ticks arrive     *)
RECURSIVE create_timers(_, _)
create_timers(K, periods) ==
    IF periods = <<>> THEN K
    ELSE create_timers(mo_timer_create(K, Head(periods)), Tail(periods))
TimerIds == TIMER_ID_BASE..(TIMER_ID_BASE + NTimers - 1)
NoSuchTimer == TIMER_ID_BASE + NTimers
TimerModes == {TIMER_DISABLED, TIMER_ONESHOT, TIMER_AUTORELOAD}
InitTimer ==
    /\ tcb = Booted.tcb
    /\ kcb \in {create_timers(Booted, periods).kcb :
                   periods \in [1..NTimers -> 1..MaxPeriod]}
    /\ mtie = TRUE
    /\ pc = [t \in Tasks |-> "run"]
    /\ sem = mo_sem_create(SemWaiters, SemInitial)
    /\ mtx = [owner_tid |-> 0, waiters |-> <<>>]
    /\ cnd = [waiters |-> <<>>]
    /\ ev = NoEvent
    /\ tokens = SemInitial
NextTimer ==
    \/ Tick
    \/ \E t \in Tasks :
          \/ mo_task_yield(t)
          \/ \E id \in TimerIds \cup {NoSuchTimer} :
                \/ \E mode \in TimerModes : mo_timer_start(t, id, mode)
                \/ mo_timer_cancel(t, id)
                \/ mo_timer_destroy(t, id)
SpecTimer == InitTimer /\ [][NextTimer]_vars

(* tasks that yield and wait for interrupts, in preemptive mode (app_main *)
(* returns 1, the timer interrupt is enabled) and in cooperative mode    *)
(* (app_main returns 0, hal_dispatch_init leaves the timer source off)   *)
InitWfi ==
    /\ tcb = Booted.tcb
    /\ kcb \in {[Booted.kcb EXCEPT !.preemptive = b] : b \in BOOLEAN}
    /\ mtie = kcb.preemptive
    /\ pc = [t \in Tasks |-> "run"]
    /\ sem = mo_sem_create(SemWaiters, SemInitial)
    /\ mtx = [owner_tid |-> 0, waiters |-> <<>>]
    /\ cnd = [waiters |-> <<>>]
    /\ ev = NoEvent
    /\ tokens = SemInitial
NextWfi ==
    \/ Tick
    \/ \E t \in Tasks :
          \/ mo_task_yield(t)
          \/ mo_task_wfi(t)
          \/ mo_task_wfi_return(t)
SpecWfi == InitWfi /\ [][NextWfi]_vars

(* an application with an rt hook: the hook returns -1, 0, a task's id or *)
(* an id that no task has; tasks yield, suspend and resume each other    *)
RtInputs == {-1} \cup (0..(NTasks + 1))
NextRt ==
    \/ \E rt \in RtInputs : timer_interrupt(rt)
    \/ \E t \in Tasks :
          \/ \E rt \in RtInputs : task_yield(t, rt)
          \/ yield_after_call(t)
          \/ \E id \in Tasks : mo_task_suspend(t, id)
          \/ \E id \in Tasks : mo_task_resume(t, id)
SpecRt == Init /\ [][NextRt]_vars

(* the kernel after a long run: kcb->ticks is one tick away from the      *)
(* carry out of bit 30, with bit 31 clear or set; tasks yield and sleep   *)
InitTicks ==
    /\ tcb = Booted.tcb
    /\ kcb \in {[Booted.kcb EXCEPT !.ticks = TICKS_LOW_MAX - 1,
                                   !.last_delay_update_tick = TICKS_LOW_MAX - 1,
                                   !.ticks_bit31 = b] : b \in {0, 1}}
    /\ mtie = TRUE
    /\ pc = [t \in Tasks |-> "run"]
    /\ sem = mo_sem_create(SemWaiters, SemInitial)
    /\ mtx = [owner_tid |-> 0, waiters |-> <<>>]
    /\ cnd = [waiters |-> <<>>]
    /\ ev = NoEvent
    /\ tokens = SemInitial
NextTicks ==
    \/ Tick
    \/ \E t \in Tasks :
          \/ mo_task_yield(t)
          \/ yield_after_call(t)
          \/ t # IdleTask /\ \E n \in 1..MaxDelay : mo_task_delay(t, n)
SpecTicks == InitTicks /\ [][NextTicks]_vars

(* tasks that lock and unlock the mutex, yield, and set the priority of  *)
(* the first task to HIGH or NORMAL                                      *)
NextPrioLock ==
    \E t \in Tasks :
       \/ mo_task_yield(t)
       \/ yield_after_call(t)
       \/ \E l \in PrioInputs : mo_task_priority(t, 1, l)
       \/ mo_mutex_lock(t)
       \/ mo_mutex_lock_return(t)
       \/ mo_mutex_unlock(t)
SpecPrioLock == Init /\ [][NextPrioLock]_vars

(* ============================== claims ================================ *)
(* C1: whenever mo_mutex_lock or mo_mutex_timedlock returns ERR_OK to a    *)
(* task T, the mutex's owner_tid is T at that moment.                      *)
C1_OwnerOnLockReturn ==
    (ev.op \in {"mutex_lock", "mutex_timedlock"} /\ ev.res = "ERR_OK")
        => mtx.owner_tid = ev.t

(* C2: while a task executes, the only task whose state is RUNNING is the  *)
(* one kcb->task_current refers to.                                        *)
C2_RunningIsCurrent ==
    kcb.halt = NoHalt =>
        \A t \in Tasks :
            tcb[t].state = TASK_RUNNING => node_data(kcb.task_current) = t

(* C3: a task that a dispatch makes current was READY or RUNNING just      *)
(* before the election (a sleeper whose last tick of delay expires in the  *)
(* same dispatch has been made READY by that timeout); a BLOCKED or        *)
(* SUSPENDED task is never switched to.                                    *)
C3_ElectedWasReady ==
    [][\A t \in Tasks :
          (/\ kcb'.halt = NoHalt
           /\ node_data(kcb'.task_current) = t
           /\ node_data(kcb.task_current) # t)
          => \/ tcb[t].state \in {TASK_READY, TASK_RUNNING}
             \/ /\ tcb[t].state = TASK_BLOCKED
                /\ tcb[t].delay = 1
                /\ kcb'.ticks # kcb.ticks]_vars

(* a step that runs the dispatcher with no rt-hook preference *)
Election == Tick \/ \E t \in Tasks : mo_task_yield(t) \/ yield_after_call(t)

(* C4: with no rt-hook preference every election picks from the highest    *)
(* non-empty level: no task that is READY after the election (the demoted  *)
(* previous task included) has a lower-numbered level than the elected one *)
C4_HighestLevelElected ==
    [][(Election /\ kcb'.halt = NoHalt) =>
          \A u \in Tasks :
              tcb'[u].state = TASK_READY =>
                  tcb'[node_data(kcb'.task_current)].prio_level
                      <= tcb'[u].prio_level]_vars

(* the task after t in queue q, going round from the last to the first *)
Succ(q, t) == q[(IndexOf(q, t) % Len(q)) + 1]

(* a task that becomes READY is linked behind every task that was already  *)
(* in the ready queue of its level                                         *)
TailAppend ==
    \A u \in Tasks :
        (tcb[u].state \in {TASK_BLOCKED, TASK_SUSPENDED}
            /\ tcb'[u].state = TASK_READY /\ kcb'.halt = NoHalt)
        => LET l == tcb'[u].prio_level
               q == kcb'.ready_queues[l]
           IN /\ InSeq(q, u)
              /\ \A v \in Tasks \ {u} :
                    (InSeq(kcb.ready_queues[l], v) /\ InSeq(q, v))
                        => IndexOf(q, v) < IndexOf(q, u)

(* an election that leaves the ready queues as they are runs the task the  *)
(* cursor of the highest non-empty level stands on and moves that cursor   *)
(* to the next task of the queue: k elections in a row run the k tasks of  *)
(* the queue once each, in queue order                                     *)
Rotation ==
    (/\ Election
     /\ kcb'.halt = NoHalt
     /\ kcb'.ready_queues = kcb.ready_queues
     /\ kcb.ready_bitmap # {})
    => LET top == MinLevel(kcb.ready_bitmap)
           q == kcb.ready_queues[top]
           elected == node_data(kcb'.task_current)
       IN /\ InSeq(q, elected)
          /\ elected = node_data(kcb.rr_cursors[top])
          /\ kcb'.rr_cursors[top] = rq_node(Succ(q, elected))

(* C5: round-robin within a level: a task that becomes READY goes to the   *)
(* tail of its level's ready queue, and consecutive elections over an      *)
(* unchanged queue run its tasks one after the other in queue order.       *)
C5_RoundRobin == [][TailAppend /\ Rotation]_vars

(* C6: a positive count implies an empty wait queue: a task only ever      *)
(* waits on the semaphore while its count is 0.                            *)
C6_CountOrWaiters == sem.count > 0 => queue_count(sem.wait_q) = 0

(* C6 witness: a signal was counted (no waiter) while another task is      *)
(* still inside a mo_sem_wait it had blocked in                            *)
C6_Witness ==
    /\ ev.op = "sem_signal" /\ ev.res = "counted"
    /\ sem.count > 0
    /\ \E t \in Tasks : pc[t] = "sem_wait_ret"

(* C7: direct handoff in FIFO order.  A task that blocks in mo_sem_wait    *)
(* joins the tail of the wait queue; mo_sem_signal with waiters leaves     *)
(* count (which is 0) unchanged, takes the head of the queue, the task     *)
(* blocked longest, and makes exactly that task READY and schedulable.     *)
C7_FifoHandoff ==
    [][/\ (ev'.op = "sem_wait" /\ ev'.res = "blocked")
            => sem'.wait_q.items = Append(sem.wait_q.items, ev'.t)
       /\ (ev'.op = "sem_signal" /\ queue_count(sem.wait_q) > 0)
            => LET w == Head(sem.wait_q.items)
               IN /\ sem.count = 0 /\ sem'.count = 0
                  /\ sem'.wait_q.items = Tail(sem.wait_q.items)
                  /\ kcb'.halt = NoHalt
                  /\ tcb'[w].state = TASK_READY
                  /\ InSeq(kcb'.ready_queues[tcb'[w].prio_level], w)
                  /\ \A u \in Tasks \ {w} : tcb'[u].state = tcb[u].state]_vars

(* C8: token conservation: the acquisitions completed (returns of          *)
(* mo_sem_wait, ERR_OK of mo_sem_trywait) never exceed initial_count plus  *)
(* the signals given.                                                      *)
C8_TokenConservation == tokens >= 0

(* C9: FIFO handoff of the mutex.  A task that blocks in mo_mutex_lock     *)
(* joins the tail of the wait list; mo_mutex_unlock by the owner of a      *)
(* mutex with waiters, in one step, makes the head of the list (the task   *)
(* that has waited longest) the owner, clears its delay and makes it       *)
(* READY; owner_tid is never 0 in between.                                 *)
C9_MutexFifoHandoff ==
    [][/\ (ev'.op \in {"mutex_lock", "mutex_timedlock"} /\ ev'.res = "blocked")
            => mtx'.waiters = Append(mtx.waiters, ev'.t)
       /\ (ev'.op = "mutex_unlock" /\ mtx.owner_tid = ev'.t
              /\ mtx.waiters # <<>>)
            => LET w == Head(mtx.waiters)
               IN /\ ev'.res = "ERR_OK"
                  /\ mtx'.owner_tid = w
                  /\ mtx'.waiters = Tail(mtx.waiters)
                  /\ tcb'[w].state = TASK_READY
                  /\ tcb'[w].delay = 0]_vars

(* C10: when mo_cond_wait returns ERR_OK the caller has been taken off the *)
(* condition variable's wait list (by a signal or broadcast) and owns the  *)
(* mutex.                                                                  *)
C10_CondWaitReturn ==
    (ev.op = "cond_wait" /\ ev.res = "ERR_OK")
        => /\ ~InSeq(cnd.waiters, ev.t)
           /\ mtx.owner_tid = ev.t

(* C11: mo_cond_signal on a condition variable with waiters takes exactly  *)
(* the head of the wait list (the longest waiter) off it and makes it      *)
(* READY with delay 0, the other waiters stay as they are; mo_cond_        *)
(* broadcast empties the list and makes exactly its members READY; on an   *)
(* empty list both return ERR_OK and change nothing.                       *)
C11_SignalBroadcast ==
    [][/\ (ev'.op = "cond_signal" /\ cnd.waiters # <<>>)
            => LET w == Head(cnd.waiters)
               IN /\ ev'.res = "ERR_OK"
                  /\ cnd'.waiters = Tail(cnd.waiters)
                  /\ tcb'[w].state = TASK_READY /\ tcb'[w].delay = 0
                  /\ \A u \in Tasks \ {w} : tcb'[u] = tcb[u]
       /\ (ev'.op = "cond_broadcast" /\ cnd.waiters # <<>>)
            => /\ ev'.res = "ERR_OK"
               /\ cnd'.waiters = <<>>
               /\ \A u \in Tasks :
                     IF InSeq(cnd.waiters, u)
                     THEN tcb'[u].state = TASK_READY /\ tcb'[u].delay = 0
                     ELSE tcb'[u] = tcb[u]
       /\ (ev'.op \in {"cond_signal", "cond_broadcast"} /\ cnd.waiters = <<>>)
            => /\ ev'.res = "ERR_OK"
               /\ UNCHANGED <<tcb, kcb, cnd, mtx>>]_vars

(* C12: a mo_mutex_timedlock(m, n) that had to wait, and whose n ticks     *)
(* have run out (delay is back to 0) without the mutex being handed to     *)
(* the caller, returns ERR_TIMEOUT; at the return the caller is not on     *)
(* m's wait list, is not BLOCKED, and the owner is the one it was.         *)
C12_TimedlockTimeout ==
    [][\A t \in Tasks :
          (/\ pc[t] = "timedlock_check" /\ pc'[t] = "run"
           /\ tcb[t].delay = 0
           /\ mtx.owner_tid # t)
          => /\ ev' = Event("mutex_timedlock", t, "ERR_TIMEOUT")
             /\ ~InSeq(mtx'.waiters, t)
             /\ tcb'[t].state # TASK_BLOCKED
             /\ mtx'.owner_tid = mtx.owner_tid]_vars

(* C13: when mo_cond_timedwait returns ERR_TIMEOUT or ERR_OK the caller is *)
(* on no wait list (the condition variable's waiters no longer include     *)
(* it), its delay is 0, and it owns the mutex again.                       *)
C13_TimedwaitReturn ==
    (ev.op = "cond_timedwait" /\ ev.res \in {"ERR_OK", "ERR_TIMEOUT"})
        => /\ ~InSeq(cnd.waiters, ev.t)
           /\ ~InSeq(mtx.waiters, ev.t)
           /\ tcb[ev.t].delay = 0
           /\ mtx.owner_tid = ev.t

(* a task that sleeps: BLOCKED with ticks of delay left *)
Sleeping(t) == tcb[t].state = TASK_BLOCKED /\ tcb[t].delay > 0

C15_SuspendResume ==
    [][\A id \in Tasks :
          /\ \A t \in Tasks :
                mo_task_suspend(t, id)
                    => IF tcb[id].state \in {TASK_READY, TASK_RUNNING, TASK_BLOCKED}
                       THEN /\ ev'.res = "ERR_OK"
                            /\ tcb'[id].state = TASK_SUSPENDED
                       ELSE /\ ev'.res = "ERR_TASK_CANT_SUSPEND"
                            /\ UNCHANGED <<tcb, kcb>>
          /\ \A t \in Tasks :
                mo_task_resume(t, id)
                    => IF tcb[id].state = TASK_SUSPENDED
                       THEN /\ ev'.res = "ERR_OK"
                            /\ tcb'[id].state = TASK_READY
                            /\ kcb'.ready_queues[tcb[id].prio_level] =
                                   Append(kcb.ready_queues[tcb[id].prio_level], id)
                       ELSE /\ ev'.res = "ERR_TASK_CANT_RESUME"
                            /\ UNCHANGED <<tcb, kcb>>
          /\ tcb'[id].state = TASK_SUSPENDED => LinkedLevels(kcb', id) = {}
          /\ (tcb[id].state = TASK_SUSPENDED
                 /\ ~ \E t \in Tasks : mo_task_resume(t, id))
                => /\ tcb'[id].state = TASK_SUSPENDED
                   /\ node_data(kcb'.task_current) = id
                          => node_data(kcb.task_current) = id]_vars

(* an id that names no live task: the reserved id 0, an id never handed    *)
(* out, or the id of a cancelled task                                      *)
NamesNoTask(id) == id = 0 \/ ~InSeq(kcb.tasks, id)

(* C16: mo_task_cancel, mo_task_suspend, mo_task_resume, and               *)
(* mo_task_priority with a valid priority, called with an id that names no *)
(* live task (id 0 included) return ERR_TASK_NOT_FOUND and change no       *)
(* kernel state; mo_task_priority with a priority that is not one of the   *)
(* eight encoded values returns ERR_TASK_INVALID_PRIO.                     *)
C16_InvalidId ==
    [][\A t \in Tasks, id \in IdInputs :
          /\ (NamesNoTask(id) /\ (\/ mo_task_cancel(t, id)
                                  \/ mo_task_suspend(t, id)
                                  \/ mo_task_resume(t, id)))
                => /\ ev'.res = "ERR_TASK_NOT_FOUND"
                   /\ UNCHANGED <<tcb, kcb>>
          /\ \A priority \in PriorityInputs :
                mo_task_priority_checked(t, id, priority)
                    => IF priority \notin
                              {TASK_PRIO_CRIT, TASK_PRIO_REALTIME, TASK_PRIO_HIGH,
                               TASK_PRIO_ABOVE, TASK_PRIO_NORMAL, TASK_PRIO_BELOW,
                               TASK_PRIO_LOW, TASK_PRIO_IDLE}
                       THEN ev'.res = "ERR_TASK_INVALID_PRIO"
                       ELSE NamesNoTask(id)
                                => /\ ev'.res = "ERR_TASK_NOT_FOUND"
                                   /\ UNCHANGED <<tcb, kcb>>]_vars

Referenced(id) ==
    \/ \E l \in Levels : \/ InSeq(kcb.ready_queues[l], id)
                         \/ kcb.rr_cursors[l] = rq_node(id)
    \/ kcb.task_current = rq_node(id)
    \/ InSeq(sem.wait_q.items, id)
    \/ InSeq(mtx.waiters, id)
    \/ InSeq(cnd.waiters, id)

C19_CancelSevers ==
    [][\A t \in Tasks, id \in Tasks :
          (mo_task_cancel(t, id) /\ ev' = Event("cancel", t, "ERR_OK"))
          => ~Referenced(id)']_vars

(* C20: on a semaphore created with mo_sem_create(N, 0), a mo_sem_wait     *)
(* that finds fewer than N tasks blocked puts its caller on the wait queue *)
(* (N tasks can be blocked at the same time); mo_sem_wait panics with      *)
(* ERR_SEM_OPERATION only when N tasks are blocked already.                *)
C20_WaitersCapacity ==
    [][\A t \in Tasks :
          (mo_sem_wait(t) /\ sem.count = 0)
          => IF queue_count(sem.wait_q) < sem.max_waiters
             THEN /\ sem'.wait_q.items = Append(sem.wait_q.items, t)
                  /\ tcb'[t].state = TASK_BLOCKED
                  /\ kcb'.halt # "ERR_SEM_OPERATION"
             ELSE kcb'.halt = "ERR_SEM_OPERATION"]_vars

(* C18: mo_task_spawn adds one to mo_task_count() and a successful         *)
(* mo_task_cancel takes one off, so a spawn followed by the cancel of the  *)
(* returned id restores the count; every id returned by mo_task_spawn is   *)
(* non-zero, greater than every id handed out before and so never the id   *)
(* of a live or cancelled task, also at the upper limit of the 16-bit      *)
(* counter.                                                                *)
C18_SpawnIds ==
    [][\A t \in Tasks :
          /\ task_spawn(t)
             => /\ mo_task_count(kcb') = mo_task_count(kcb) + 1
                /\ ev'.id # 0
                /\ \A j \in DOMAIN tcb : ev'.id > j
          /\ \A id \in DOMAIN tcb :
                (mo_task_cancel(t, id) /\ ev' = Event("cancel", t, "ERR_OK"))
                => mo_task_count(kcb') = mo_task_count(kcb) - 1]_vars

Occurrences(s, x) == Cardinality({i \in 1..Len(s) : s[i] = x})

C22_TimerStartCancel ==
    [][\A t \in Tasks, id \in TimerIds \cup {NoSuchTimer} :
          /\ \A mode \in {TIMER_ONESHOT, TIMER_AUTORELOAD} :
                (/\ mo_timer_start(t, id, mode)
                 /\ InSeq(kcb.all_timers_list, id)
                 /\ kcb'.halt = NoHalt)
                => /\ ev' = Event("timer_start", t, "ERR_OK")
                   /\ Occurrences(kcb'.timer_list, id) = 1
                   /\ kcb'.timer_pool[id].mode = mode
                   /\ kcb'.timer_pool[id].deadline_ticks =
                          kcb.ticks + kcb.timer_pool[id].period
          /\ (mo_timer_cancel(t, id) /\ kcb'.halt = NoHalt)
             => IF InSeq(kcb.all_timers_list, id)
                   /\ kcb.timer_pool[id].mode # TIMER_DISABLED
                THEN /\ ev' = Event("timer_cancel", t, "ERR_OK")
                     /\ ~InSeq(kcb'.timer_list, id)
                     /\ kcb'.timer_pool[id].mode = TIMER_DISABLED
                ELSE /\ ev' = Event("timer_cancel", t, "ERR_FAIL")
                     /\ UNCHANGED <<tcb, kcb>>]_vars

(* C23: an armed AUTO_RELOAD timer has its callback invoked once per       *)
(* period: when the tick handler runs with the timer's deadline reached,   *)
(* it invokes the callback once and re-arms the timer one period after     *)
(* the deadline, so the k-th invocation follows tick t + k*p.              *)
HandlerRuns(t) == mo_task_yield(t) /\ kcb.timer_work_pending

C23_AutoReload ==
    [][\A t \in Tasks, id \in TimerIds :
          (/\ HandlerRuns(t)
           /\ InSeq(kcb.timer_list, id)
           /\ kcb.timer_pool[id].mode = TIMER_AUTORELOAD
           /\ kcb.ticks >= kcb.timer_pool[id].deadline_ticks
           /\ kcb'.halt = NoHalt)
          => /\ kcb'.timer_pool[id].fired = kcb.timer_pool[id].fired + 1
             /\ Occurrences(kcb'.timer_list, id) = 1
             /\ kcb'.timer_pool[id].deadline_ticks =
                    kcb.timer_pool[id].deadline_ticks + kcb.timer_pool[id].period]_vars

(* C24: callbacks are invoked in non-decreasing order of deadline_ticks,   *)
(* ties in the order of insertion: the active list is sorted by deadline,  *)
(* and a run of the tick handler invokes the callback of every timer it    *)
(* takes off the head of the list, and of no timer that stays behind.      *)
DeadlineSorted(k) ==
    \A i, j \in 1..Len(k.timer_list) :
       i < j => k.timer_pool[k.timer_list[i]].deadline_ticks
                   <= k.timer_pool[k.timer_list[j]].deadline_ticks

C25_WaitForInterrupt ==
    [][\A t \in Tasks :
          /\ (mo_task_wfi(t) /\ kcb.preemptive) => ev'.res # "returned"
          /\ mo_task_wfi_return(t) => kcb.ticks > tcb[t].current_ticks
          /\ (mo_task_wfi(t) /\ ~kcb.preemptive)
             => \A rt \in noop_rtsched :
                   kcb'.task_current = yield(Kern, rt).kcb.task_current]_vars

(* C26: in dispatch(), an rt hook value >= 0 that names an existing ready  *)
(* task makes that task kcb->task_current, RUNNING, with a refilled time   *)
(* slice, and the task that was running READY; a negative value or an id   *)
(* that names no task gives what the standard selection gives.             *)
ReadyTask(id) ==
    /\ find_task_node_by_id(kcb, id) # NULL
    /\ tcb[id].state \in {TASK_READY, TASK_RUNNING}
    /\ tcb[id].delay = 0
    /\ LinkedLevels(kcb, id) = {tcb[id].prio_level}

C26_RtHook ==
    [][\A rt \in RtInputs :
          /\ (timer_interrupt(rt) \/ \E t \in Tasks : task_yield(t, rt))
             /\ rt >= 0 /\ ReadyTask(rt)
             => /\ node_data(kcb'.task_current) = rt
                /\ tcb'[rt].state = TASK_RUNNING
                /\ tcb'[rt].time_slice = get_priority_timeslice(tcb[rt].prio_level)
                /\ \A prev \in Tasks \ {rt} :
                      (node_data(kcb.task_current) = prev
                       /\ tcb[prev].state = TASK_RUNNING)
                      => tcb'[prev].state = TASK_READY
          /\ (rt < 0 \/ find_task_node_by_id(kcb, rt) = NULL)
             => /\ timer_interrupt(rt)
                   => /\ tcb' = dispatcher(Kern, TRUE, -1).tcb
                      /\ kcb' = dispatcher(Kern, TRUE, -1).kcb
                /\ \A t \in Tasks :
                      task_yield(t, rt)
                      => /\ tcb' = yield(Kern, -1).tcb
                         /\ kcb' = yield(Kern, -1).kcb]_vars

(* C26 witness: the hook has elected a task that the round-robin cursor    *)
(* did not point to; the task runs and the task before it is READY         *)
C26_Witness ==
    /\ kcb.halt = NoHalt
    /\ kcb.task_current[1] = "task"
    /\ tcb[node_data(kcb.task_current)].state = TASK_RUNNING
    /\ \A t \in Tasks \ {node_data(kcb.task_current)} : tcb[t].state # TASK_RUNNING
    /\ \E t \in Tasks \ {node_data(kcb.task_current)} : tcb[t].state = TASK_READY

(* C27: the global tick counter never decreases: a timer interrupt         *)
(* advances it by exactly one, a dispatch entered through an ecall yield   *)
(* leaves it unchanged, and at its 32-bit maximum it stays there instead   *)
(* of wrapping to 0.                                                       *)
TicksAtMax(k) == k.ticks_bit31 = 1 /\ k.ticks = TICKS_LOW_MAX
TicksSucc(k1, k2) ==
    IF k1.ticks = TICKS_LOW_MAX
    THEN k1.ticks_bit31 = 0 /\ k2.ticks_bit31 = 1 /\ k2.ticks = 0
    ELSE k2.ticks_bit31 = k1.ticks_bit31 /\ k2.ticks = k1.ticks + 1
TicksSame(k1, k2) == k2.ticks_bit31 = k1.ticks_bit31 /\ k2.ticks = k1.ticks
TicksLeq(k1, k2) ==
    \/ k1.ticks_bit31 < k2.ticks_bit31
    \/ k1.ticks_bit31 = k2.ticks_bit31 /\ k1.ticks <= k2.ticks

C27_TicksMonotonic ==
    [][/\ TicksLeq(kcb, kcb')
       /\ Tick => IF TicksAtMax(kcb) THEN TicksSame(kcb, kcb')
                  ELSE TicksSucc(kcb, kcb')
       /\ \A t \in Tasks :
             (mo_task_yield(t) \/ yield_after_call(t)) => TicksSame(kcb, kcb')]_vars

(* C28: a task is linked in a ready queue iff its state is READY or        *)
(* RUNNING; it is then in the queue of its prio_level, exactly once over   *)
(* all ready queues; a task blocked in a delay, semaphore, mutex or        *)
(* condition variable call is in no ready queue.                           *)
LinkCount(t) ==
    Cardinality({<<l, i>> \in Levels \X (1..NTasks) :
                    i <= Len(kcb.ready_queues[l]) /\ kcb.ready_queues[l][i] = t})

C28_ReadyQueueMembership ==
    kcb.halt = NoHalt =>
    \A t \in Tasks :
       find_task_node_by_id(kcb, t) # NULL =>
       /\ (LinkCount(t) > 0) <=> (tcb[t].state \in {TASK_READY, TASK_RUNNING})
       /\ LinkCount(t) > 0 => /\ LinkedLevels(kcb, t) = {tcb[t].prio_level}
                              /\ LinkCount(t) = 1

BetweenOperations ==
    node_data(kcb.task_current) \in Tasks => pc[node_data(kcb.task_current)] = "run"

C30_CursorInvariant ==
    (kcb.halt = NoHalt /\ BetweenOperations) =>
    \A l \in Levels :
       LET q == kcb.ready_queues[l]
           c == kcb.rr_cursors[l]
       IN /\ Len(q) = 0 => c = NULL
          /\ Len(q) = 1 => c = rq_node(q[1])
          /\ Len(q) > 1 => /\ c[1] = "rq"
                           /\ InSeq(q, c[2])
                           /\ c[2] # node_data(kcb.task_current)

(* C31: every task on the semaphore's wait queue, the mutex's wait list or *)
(* the condition variable's wait list is BLOCKED, each of them holds a     *)
(* task at most once, and no task is on two of them at the same time.      *)
WaitLists == <<sem.wait_q.items, mtx.waiters, cnd.waiters>>

C31_WaitersBlocked ==
    kcb.halt = NoHalt =>
    \A i \in 1..3 :
       /\ \A n \in 1..Len(WaitLists[i]) :
             /\ tcb[WaitLists[i][n]].state = TASK_BLOCKED
             /\ \A m \in 1..Len(WaitLists[i]) :
                   WaitLists[i][m] = WaitLists[i][n] => m = n
       /\ \A j \in 1..3 :
             i # j => \A t \in Tasks : ~(InSeq(WaitLists[i], t) /\ InSeq(WaitLists[j], t))

(* C32: between operations, a task with delay > 0 is BLOCKED: no READY,    *)
(* RUNNING or SUSPENDED task carries a nonzero delay.                      *)
C32_DelayImpliesBlocked ==
    (kcb.halt = NoHalt /\ BetweenOperations) =>
    \A t \in Tasks :
       (find_task_node_by_id(kcb, t) # NULL /\ tcb[t].delay > 0)
       => tcb[t].state = TASK_BLOCKED

(* C33: after every completed operation, a mutex whose owner_tid is 0 has  *)
(* an empty wait list: it is never left unowned while a task is queued.    *)
C33_UnownedHasNoWaiters ==
    kcb.halt = NoHalt => (mtx.owner_tid = 0 => Len(mtx.waiters) = 0)

(* C33 witness: mo_mutex_unlock has completed on a mutex with two queued   *)
(* tasks: the first of them owns the mutex and the other is still queued   *)
C33_Witness ==
    /\ kcb.halt = NoHalt
    /\ ev.op = "mutex_unlock" /\ ev.res = "ERR_OK"
    /\ mtx.owner_tid \notin {0, ev.t}
    /\ Len(mtx.waiters) = 1
    /\ tcb[mtx.waiters[1]].state = TASK_BLOCKED

(* C34: after any sequence of timer start, cancel, destroy and tick-       *)
(* handler runs, the active list is sorted by deadline_ticks ascending and *)
(* holds only existing timers whose mode is ONESHOT or AUTORELOAD, each at *)
(* most once; the callback of a DISABLED or destroyed timer is not invoked.*)
ActiveListOk(k) ==
    /\ DeadlineSorted(k)
    /\ \A i \in 1..Len(k.timer_list) :
          LET id == k.timer_list[i]
          IN /\ k.timer_pool[id].mode \in {TIMER_ONESHOT, TIMER_AUTORELOAD}
             /\ InSeq(k.all_timers_list, id)
             /\ Occurrences(k.timer_list, id) = 1

Fires(id) ==
    \E i \in 1..expired_count(Kern) : kcb.timer_list[i] = id

C35_ReloadOrDisable ==
    [][\A t \in Tasks, id \in TimerIds :
          (HandlerRuns(t) /\ Fires(id) /\ kcb'.halt = NoHalt)
          => IF kcb.timer_pool[id].mode = TIMER_AUTORELOAD
             THEN /\ InSeq(kcb'.timer_list, id)
                  /\ kcb'.timer_pool[id].mode = TIMER_AUTORELOAD
                  /\ kcb'.timer_pool[id].deadline_ticks =
                        kcb.timer_pool[id].last_expected_fire_tick
                           + kcb.timer_pool[id].period
             ELSE /\ ~InSeq(kcb'.timer_list, id)
                  /\ kcb'.timer_pool[id].mode = TIMER_DISABLED]_vars

(* C36: one run of the tick handler invokes at most TIMER_BATCH_SIZE (4)   *)
(* callbacks, each once and only of timers in the active list whose        *)
(* deadline_ticks <= the current tick; an expired timer is not dropped:    *)
(* after the run it has been fired or it is still in the active list.      *)
FiredNow == {id \in TimerIds : kcb'.timer_pool[id].fired > kcb.timer_pool[id].fired}

C36_BatchNoDrop ==
    [][\A t \in Tasks :
          (HandlerRuns(t) /\ kcb'.halt = NoHalt)
          => /\ Cardinality(FiredNow) <= TIMER_BATCH_SIZE
             /\ \A id \in FiredNow :
                   /\ kcb'.timer_pool[id].fired = kcb.timer_pool[id].fired + 1
                   /\ InSeq(kcb.timer_list, id)
                   /\ kcb.timer_pool[id].deadline_ticks <= kcb.ticks
             /\ \A i \in 1..Len(kcb.timer_list) :
                   kcb.timer_pool[kcb.timer_list[i]].deadline_ticks <= kcb.ticks
                   => \/ kcb.timer_list[i] \in FiredNow
                      \/ InSeq(kcb'.timer_list, kcb.timer_list[i])]_vars

(* C37: time-slice accounting. The slice of the elected task is refilled  *)
(* from priority_timeslices; a timer tick takes one unit from the slice   *)
(* of the RUNNING task, and the task keeps the CPU against the tasks of   *)
(* its own level until the slice reaches zero; at zero it is demoted to   *)
(* READY, stays in the ready queue of its level and a peer is elected.    *)
C37_TimeSlice ==
    [][(Tick /\ kcb'.halt = NoHalt /\ node_data(kcb.task_current) \in Tasks
             /\ node_data(kcb'.task_current) \in Tasks
             /\ tcb[node_data(kcb.task_current)].state = "RUNNING")
       => LET t == node_data(kcb.task_current)
              n == node_data(kcb'.task_current)
          IN /\ n # t => tcb'[n].time_slice = get_priority_timeslice(tcb'[n].prio_level)
             /\ (tcb[t].time_slice > 1 /\ tcb'[n].prio_level = tcb[t].prio_level)
                => /\ n = t
                   /\ tcb'[t].state = "RUNNING"
                   /\ tcb'[t].time_slice = tcb[t].time_slice - 1
             /\ (tcb[t].time_slice <= 1 /\ n # t)
                => /\ tcb'[t].state = "READY"
                   /\ InSeq(kcb'.ready_queues[tcb[t].prio_level], t)]_vars

(* C38: no timer-tick dispatch happens between the point where the        *)
(* running task has put itself on a wait list or marked itself BLOCKED    *)
(* (mo_task_delay, mo_mutex_timedlock, mo_cond_wait, mo_cond_timedwait)   *)
(* and the yield that switches it out.                                    *)
BlockedBeforeYield(t) ==
    /\ OnCpu(t)
    /\ pc[t] \in {"delay_yield", "timedlock_yield", "cond_wait_yield",
                  "cond_timedwait_yield"}
    /\ tcb[t].state = TASK_BLOCKED

C38_NoTickBeforeYield ==
    [][Tick => \A t \in Tasks : ~BlockedBeforeYield(t)]_vars

(* --------------------------- machine timer --------------------------- *)
(* kcb.mtime and kcb.mtimecmp are the CLINT registers; hal_hardware_init *)
(* programs the first compare value. The specifications above let the   *)
(* timer interrupt come whenever mtie is set; SpecClint follows the      *)
(* counter and the compare value.                                        *)

(* hal_timer_enable: mtimecmp_w(mtime_r() + F_CPU / F_TIMER), then MTIE  *)
hal_timer_enable(k) == [k EXCEPT !.mtimecmp = k.mtime + TickCycles]

(* the counter advances; a timer interrupt that is due and enabled is    *)
(* taken first                                                           *)
mtime_advance ==
    /\ kcb.halt = NoHalt
    /\ kcb.mtime < MaxMtime
    /\ ~(mtie /\ kcb.mtime >= kcb.mtimecmp)
    /\ kcb' = [kcb EXCEPT !.mtime = @ + 1]
    /\ UNCHANGED <<tcb, mtie, pc, sem, mtx, cnd, ev, tokens>>

(* do_trap, machine timer interrupt: the next compare value is relative  *)
(* to the previous one, then dispatcher(1)                               *)
do_trap(rt) ==
    /\ kcb.halt = NoHalt
    /\ mtie
    /\ kcb.mtime >= kcb.mtimecmp
    /\ TicksInBound(kcb)
    /\ Commit(dispatcher([Kern EXCEPT !.kcb.mtimecmp = @ + TickCycles],
                         TRUE, rt))
    /\ ev' = NoEvent
    /\ UNCHANGED <<mtie, pc, sem, mtx, cnd, tokens>>

(* NOSCHED_ENTER in preemptive mode: hal_timer_disable() *)
NOSCHED_ENTER(t) ==
    /\ At(t, "run")
    /\ kcb.preemptive
    /\ mtie' = FALSE
    /\ Goto(t, "nosched")
    /\ ev' = Event("nosched_enter", t, "none")
    /\ UNCHANGED <<tcb, kcb, sem, mtx, cnd, tokens>>

(* NOSCHED_LEAVE in preemptive mode: hal_timer_enable() *)
NOSCHED_LEAVE(t) ==
    /\ At(t, "nosched")
    /\ kcb.preemptive
    /\ kcb' = hal_timer_enable(kcb)
    /\ mtie' = TRUE
    /\ Goto(t, "run")
    /\ ev' = Event("nosched_leave", t, "none")
    /\ UNCHANGED <<tcb, sem, mtx, cnd, tokens>>

NextClint ==
    \/ mtime_advance
    \/ \E rt \in noop_rtsched : do_trap(rt)
    \/ \E t \in Tasks :
          \/ mo_task_yield(t)
          \/ NOSCHED_ENTER(t)
          \/ NOSCHED_LEAVE(t)

SpecClint == Init /\ [][NextClint]_vars

(* C39: NOSCHED_ENTER and NOSCHED_LEAVE change the timer interrupt-enable *)
(* bit only; the compare value programmed for the next tick stays as it   *)
(* was, so the tick is not postponed by a critical section.               *)
C39_CompareUnchanged ==
    [][\A t \in Tasks : (NOSCHED_ENTER(t) \/ NOSCHED_LEAVE(t))
                        => kcb'.mtimecmp = kcb.mtimecmp]_vars

(* ----------------------------- timer pool ---------------------------- *)
(* mo_timer_create step by step. kcb.pool holds pool_free_mask, the slot *)
(* each task's get_timer() is working on, the id written in each slot,   *)
(* all_timers_list as a sequence of slots and the ids returned so far.   *)
(* get_timer() runs before NOSCHED_ENTER(), so the test of a mask bit    *)
(* and its clearing are separate steps; the rest of mo_timer_create      *)
(* runs with the timer interrupt masked.                                 *)

(* validation, timer_subsystem_init, and the loop of get_timer up to    *)
(* the first set bit of pool_free_mask                                   *)
get_timer_test(t) ==
    /\ At(t, "run")
    /\ IF kcb.pool.free_mask = {}
       THEN /\ kcb' = [kcb EXCEPT !.timer_initialized = TRUE]
            /\ ev' = Event("timer_create", t, "ERR_FAIL")
            /\ UNCHANGED pc
       ELSE LET i == CHOOSE j \in kcb.pool.free_mask :
                        \A k \in kcb.pool.free_mask : j <= k
            IN /\ kcb' = [kcb EXCEPT !.timer_initialized = TRUE,
                                     !.pool.got[t] = i]
               /\ Goto(t, "get_timer_clear")
               /\ ev' = Event("get_timer", t, "none")
    /\ UNCHANGED <<tcb, mtie, sem, mtx, cnd, tokens>>

(* pool_free_mask &= ~(1 << i); return &timer_pool[i] *)
get_timer_clear(t) ==
    /\ At(t, "get_timer_clear")
    /\ kcb' = [kcb EXCEPT !.pool.free_mask = @ \ {kcb.pool.got[t]}]
    /\ Goto(t, "timer_create_init")
    /\ ev' = Event("get_timer", t, "slot")
    /\ UNCHANGED <<tcb, mtie, sem, mtx, cnd, tokens>>

(* NOSCHED_ENTER .. NOSCHED_LEAVE of mo_timer_create: the record gets    *)
(* next_id++ and t_node.next = NULL and is inserted in all_timers_list   *)
(* by id. For a record that is in the list already the reset of          *)
(* t_node.next cuts the list, and the insertion walks off its end.       *)
mo_timer_create_locked(t) ==
    /\ At(t, "timer_create_init")
    /\ LET i == kcb.pool.got[t]
           id == kcb.next_id
           L == kcb.pool.list
           relinked == InSeq(L, i)
           later == {n \in 1..Len(L) : id < kcb.pool.id[L[n]]}
           pos == IF later = {} THEN Len(L) + 1
                  ELSE CHOOSE n \in later : \A m \in later : n <= m
       IN Commit([Kern EXCEPT
                    !.kcb.next_id = (@ + 1) % TID_LIMIT,
                    !.kcb.pool.id[i] = id,
                    !.kcb.pool.list =
                        IF relinked THEN @
                        ELSE SubSeq(L, 1, pos - 1) \o <<i>> \o SubSeq(L, pos, Len(L)),
                    !.kcb.pool.ret = @ \cup {id},
                    !.kcb.pool.got[t] = -1,
                    !.kcb.undefined = relinked])
    /\ mtie' = TRUE
    /\ Goto(t, "run")
    /\ ev' = Event("timer_create", t, "ERR_OK")
    /\ UNCHANGED <<sem, mtx, cnd, tokens>>

NextPool ==
    \/ Tick
    \/ \E t \in Tasks :
          \/ mo_task_yield(t)
          \/ get_timer_test(t)
          \/ get_timer_clear(t)
          \/ mo_timer_create_locked(t)

SpecPool == Init /\ [][NextPool]_vars

(* C40: two tasks in mo_timer_create never hold the same pool slot;      *)
(* every id returned maps to one record of its own, all_timers_list      *)
(* holds each record once, and at most TIMER_NODE_POOL_SIZE timers are   *)
(* live.                                                                 *)
C40_DistinctSlots ==
    /\ \A t1, t2 \in Tasks :
          (t1 # t2 /\ pc[t1] = "timer_create_init" /\ pc[t2] = "timer_create_init")
          => kcb.pool.got[t1] # kcb.pool.got[t2]
    /\ \A a, b \in 1..Len(kcb.pool.list) :
          a # b => kcb.pool.list[a] # kcb.pool.list[b]
    /\ Cardinality(kcb.pool.ret) <= TIMER_NODE_POOL_SIZE
    /\ \A id \in kcb.pool.ret :
          \E n \in 1..Len(kcb.pool.list) : kcb.pool.id[kcb.pool.list[n]] = id

====
